---- MODULE Spec2Model ----
(***************************************************************************)
(* Model of the expiry-date extraction engine of KeepEat,                  *)
(* frontend/utils/dateParser.ts.                                           *)
(*                                                                         *)
(* A text is a sequence of characters, each character a one-character      *)
(* string (a character outside Latin-1 is written by its code point name).  A date    *)
(* is a record [y, m, d] of a local calendar day; the matchers, the        *)
(* validity window and the resolvers are operators that follow the code    *)
(* statement by statement, each regular expression being translated into   *)
(* its leftmost, greedy, backtracking match.                               *)
(***************************************************************************)
EXTENDS Integers, Sequences, FiniteSets, TLC

VARIABLES
  expiryDetectionPastYears, \* the module-level tunable (dateParser.ts:8)
  now,                      \* the wall-clock day read by new Date()
  pc,                       \* "idle", "returned", or inside a parse: "running"
  op,                       \* the exported function called last
  input,                    \* its argument
  result,                   \* its return value
  trace,                    \* the matcher attempts it made, in order
  call                      \* the frame of a parse that is being stepped

vars == <<expiryDetectionPastYears, now, pc, op, input, result, trace, call>>

(***************************************************************************)
(* Characters                                                              *)
(***************************************************************************)
DigitChars == <<"0", "1", "2", "3", "4", "5", "6", "7", "8", "9">>

Digits == {DigitChars[i] : i \in 1..Len(DigitChars)}

DigitVal == [c \in Digits |-> (CHOOSE i \in 1..Len(DigitChars) : DigitChars[i] = c) - 1]

LowerChars ==
  <<"a", "b", "c", "d", "e", "f", "g", "h", "i", "j", "k", "l", "m",
    "n", "o", "p", "q", "r", "s", "t", "u", "v", "w", "x", "y", "z">>

UpperChars ==
  <<"A", "B", "C", "D", "E", "F", "G", "H", "I", "J", "K", "L", "M",
    "N", "O", "P", "Q", "R", "S", "T", "U", "V", "W", "X", "Y", "Z">>

\* Precomposed letters, each with its lowercase form, its base letter and
\* the combining mark of its canonical decomposition.
AccentTable ==
  << <<"é", "é", "e", "U+0301">>, <<"É", "é", "e", "U+0301">>,
     <<"è", "è", "e", "U+0300">>, <<"ê", "ê", "e", "U+0302">>,
     <<"ë", "ë", "e", "U+0308">>, <<"à", "à", "a", "U+0300">>,
     <<"À", "à", "a", "U+0300">>,
     <<"â", "â", "a", "U+0302">>, <<"ä", "ä", "a", "U+0308">>,
     <<"Ä", "ä", "a", "U+0308">>, <<"î", "î", "i", "U+0302">>,
     <<"ï", "ï", "i", "U+0308">>, <<"ô", "ô", "o", "U+0302">>,
     <<"ö", "ö", "o", "U+0308">>, <<"ù", "ù", "u", "U+0300">>,
     <<"û", "û", "u", "U+0302">>, <<"Û", "û", "u", "U+0302">>,
     <<"ü", "ü", "u", "U+0308">>, <<"ç", "ç", "c", "U+0327">>,
     <<"ñ", "ñ", "n", "U+0303">>, <<"U+0144", "U+0144", "n", "U+0301">>,
     <<"U+017A", "U+017A", "z", "U+0301">> >>

AccentIndex == 1..Len(AccentTable)

CombiningMarks == {AccentTable[i][4] : i \in AccentIndex}

Whitespace == {" ", "\t", "\n", "\r"}

LowerSet == {LowerChars[i] : i \in 1..Len(LowerChars)}

UpperSet == {UpperChars[i] : i \in 1..Len(UpperChars)}

\* [a-zàâäéèêëïîôùûüçñß] under the i flag
LetterClass ==
  LowerSet \cup UpperSet
    \cup {"à", "â", "ä", "é", "è", "ê", "ë", "ï", "î", "ô", "ù", "û", "ü", "ç", "ñ", "ß"}
    \cup {"À", "Ä", "É", "Û"}

\* [\/\-\.\s]
SepClass == {"/", "-", "."} \cup Whitespace

\* [\/\-\.]
StrictSepClass == {"/", "-", "."}

\* [\/\-]
SlashDashClass == {"/", "-"}

\* [:\s\-\/\.]
TrimClass == {":", "/", "-", "."} \cup Whitespace

\* [:\s]
ColonSpaceClass == {":"} \cup Whitespace

\* [,\s]
CommaSpaceClass == {","} \cup Whitespace

\* The character at 1-based position i; "" past either end.
At(s, i) == IF i \in 1..Len(s) THEN s[i] ELSE ""

\* Length of the longest run of characters of class C that starts at i.
RECURSIVE RunLen(_, _, _)
RunLen(s, i, C) == IF At(s, i) \in C THEN 1 + RunLen(s, i + 1, C) ELSE 0

AllIn(s, i, n, C) == \A k \in 0..(n - 1) : At(s, i + k) \in C

\* Body applied to the value of an expression; the expression is evaluated
\* once, however often Body uses it.
With(value, Body(_)) == CHOOSE out \in {Body(evaluated) : evaluated \in {value}} : TRUE

Min(S) == With(S, LAMBDA T : CHOOSE x \in T : \A y \in T : x <= y)
(***************************************************************************)
(* Text normalisation (normalizeText)                                      *)
(***************************************************************************)
RECURSIVE FlatMapFrom(_, _, _)
FlatMapFrom(F, s, i) == IF i > Len(s) THEN <<>> ELSE F[s[i]] \o FlatMapFrom(F, s, i + 1)

\* The concatenation of F[c] over the characters c of s.
FlatMap(F, s) == With(s, LAMBDA chars : FlatMapFrom(F, chars, 1))

\* String.prototype.toLowerCase on one character
ToLower(c) ==
  IF c \in UpperSet
    THEN LowerChars[CHOOSE i \in 1..Len(UpperChars) : UpperChars[i] = c]
  ELSE IF \E i \in AccentIndex : AccentTable[i][1] = c
    THEN AccentTable[CHOOSE i \in AccentIndex : AccentTable[i][1] = c][2]
  ELSE c

\* normalize('NFD') on one character: base letter followed by its mark
Nfd(c) ==
  IF \E i \in AccentIndex : AccentTable[i][1] = c
    THEN LET e == AccentTable[CHOOSE i \in AccentIndex : AccentTable[i][1] = c]
         IN  <<e[3], e[4]>>
    ELSE <<c>>

\* replace(/[\u0300-\u036f]/g, '')
StripMarks(s) == SelectSeq(s, LAMBDA c : c \notin CombiningMarks)

\* the six replace(/[...]/gi, base) calls and replace(/[ß]/gi, 'ss')
ReplaceLetters(c) ==
  IF c \in {"à", "â", "ä", "À", "Ä"} THEN <<"a">>
  ELSE IF c \in {"è", "é", "ê", "ë", "É"} THEN <<"e">>
  ELSE IF c \in {"î", "ï"} THEN <<"i">>
  ELSE IF c \in {"ô", "ö"} THEN <<"o">>
  ELSE IF c \in {"ù", "û", "ü", "Û"} THEN <<"u">>
  ELSE IF c = "ç" THEN <<"c">>
  ELSE IF c = "ñ" THEN <<"n">>
  ELSE IF c = "ß" THEN <<"s", "s">>
  ELSE <<c>>

KnownChars ==
  Digits \cup LowerSet \cup UpperSet \cup LetterClass \cup CombiningMarks
    \cup {AccentTable[i][1] : i \in AccentIndex}
    \cup TrimClass \cup {",", "ß"}

\* What the character-wise steps of normalizeText make of one character.
NormCharMap ==
  [c \in KnownChars |->
     LET decomposed == StripMarks(Nfd(ToLower(c)))
     IN  FlatMap([x \in KnownChars |-> ReplaceLetters(x)], decomposed)]

RECURSIVE CollapseFrom(_, _)
CollapseFrom(s, i) ==
  IF i > Len(s) THEN <<>>
  ELSE IF s[i] \in Whitespace
    THEN <<" ">> \o With(i + RunLen(s, i, Whitespace), LAMBDA j : CollapseFrom(s, j))
    ELSE <<s[i]>> \o CollapseFrom(s, i + 1)

\* replace(/\s+/g, ' ')
CollapseSpaces(s) == With(s, LAMBDA chars : CollapseFrom(chars, 1))

RECURSIVE RunLenBack(_, _, _)
\* Length of the longest run of characters of class C that ends at i.
RunLenBack(s, i, C) == IF At(s, i) \in C THEN 1 + RunLenBack(s, i - 1, C) ELSE 0

\* Remove the leading and the trailing run of characters of class C.
StripBoth(s, C) ==
  With(s, LAMBDA chars :
    With(RunLen(chars, 1, C), LAMBDA lead :
      IF lead = Len(chars) THEN <<>>
      ELSE SubSeq(chars, lead + 1, Len(chars) - RunLenBack(chars, Len(chars), C))))

\* String.prototype.trim
Trim(s) == StripBoth(s, Whitespace)

\* Mutant of normalizeText: the combining marks removed after the
\* whitespace has been collapsed and trimmed.
normalizeTextMarksLast(text) ==
  StripMarks(Trim(CollapseSpaces(
    FlatMap([c \in KnownChars |->
               FlatMap([x \in KnownChars |-> ReplaceLetters(x)], Nfd(ToLower(c)))],
            text))))

normalizeText(text) == Trim(CollapseSpaces(FlatMap(NormCharMap, text)))

(***************************************************************************)
(* Numbers read from text                                                  *)
(***************************************************************************)
RECURSIVE DigitsValue(_, _, _)
\* parseInt of the n digits of s that start at i
DigitsValue(s, i, n) ==
  IF n = 0 THEN 0 ELSE DigitsValue(s, i, n - 1) * 10 + DigitVal[s[i + n - 1]]

\* parseInt(s) is NaN: s does not start with a digit
ParseIntIsNaN(s) == At(s, 1) \notin Digits

\* parseInt(s): the value of the leading digits of s
ParseInt(s) == With(RunLen(s, 1, Digits), LAMBDA n : DigitsValue(s, 1, n))

\* Mutant of expandYear: the pivot one year early, 50 read as 1950.
expandYearPivot49(year) ==
  IF year >= 100 THEN year
  ELSE IF year > 49 THEN 1900 + year ELSE 2000 + year

expandYear(year) ==
  IF year >= 100 THEN year
  ELSE IF year > 50 THEN 1900 + year ELSE 2000 + year

(***************************************************************************)
(* Registries                                                              *)
(***************************************************************************)
\* Object.values(EXPIRY_KEYWORDS).flat(): fr, en, de, es, it, pt, nl, pl
ALL_KEYWORDS ==
  << <<"a", " ", "c", "o", "n", "s", "o", "m", "m", "e", "r", " ", "d", "e", " ", "p", "r", "e", "f", "e", "r", "e", "n", "c", "e", " ", "a", "v", "a", "n", "t">>,
     <<"a", " ", "c", "o", "n", "s", "o", "m", "m", "e", "r", " ", "a", "v", "a", "n", "t">>,
     <<"a", " ", "c", "o", "n", "s", "o", "m", "m", "e", "r", " ", "j", "u", "s", "q", "u">>,
     <<"d", "a", "t", "e", " ", "l", "i", "m", "i", "t", "e", " ", "d", "e", " ", "c", "o", "n", "s", "o", "m", "m", "a", "t", "i", "o", "n">>,
     <<"d", "a", "t", "e", " ", "l", "i", "m", "i", "t", "e">>,
     <<"d", "l", "c">>,
     <<"d", "d", "m">>,
     <<"d", "a", "t", "e", " ", "d", "e", " ", "d", "u", "r", "a", "b", "i", "l", "i", "t", "e", " ", "m", "i", "n", "i", "m", "a", "l", "e">>,
     <<"p", "e", "r", "e", "m", "p", "t", "i", "o", "n">>,
     <<"e", "x", "p">>,
     <<"v", "a", "l", "a", "b", "l", "e", " ", "j", "u", "s", "q", "u">>,
     <<"f", "i", "n">>,
     <<"b", "e", "s", "t", " ", "b", "e", "f", "o", "r", "e">>,
     <<"b", "e", "s", "t", " ", "b", "y">>,
     <<"u", "s", "e", " ", "b", "y">>,
     <<"u", "s", "e", " ", "b", "e", "f", "o", "r", "e">>,
     <<"s", "e", "l", "l", " ", "b", "y">>,
     <<"e", "x", "p", "i", "r", "y", " ", "d", "a", "t", "e">>,
     <<"e", "x", "p", "i", "r", "y">>,
     <<"e", "x", "p", " ", "d", "a", "t", "e">>,
     <<"e", "x", "p">>,
     <<"e", "x", "p", "i", "r", "e", "s">>,
     <<"c", "o", "n", "s", "u", "m", "e", " ", "b", "y">>,
     <<"c", "o", "n", "s", "u", "m", "e", " ", "b", "e", "f", "o", "r", "e">>,
     <<"b", "b">>,
     <<"b", "b", "e">>,
     <<"m", "i", "n", "d", "e", "s", "t", "e", "n", "s", " ", "h", "a", "l", "t", "b", "a", "r", " ", "b", "i", "s">>,
     <<"m", "h", "d">>,
     <<"v", "e", "r", "b", "r", "a", "u", "c", "h", "s", "d", "a", "t", "u", "m">>,
     <<"h", "a", "l", "t", "b", "a", "r", " ", "b", "i", "s">>,
     <<"z", "u", " ", "v", "e", "r", "b", "r", "a", "u", "c", "h", "e", "n", " ", "b", "i", "s">>,
     <<"a", "b", "l", "a", "u", "f", "d", "a", "t", "u", "m">>,
     <<"c", "o", "n", "s", "u", "m", "i", "r", " ", "p", "r", "e", "f", "e", "r", "e", "n", "t", "e", "m", "e", "n", "t", "e", " ", "a", "n", "t", "e", "s">>,
     <<"f", "e", "c", "h", "a", " ", "d", "e", " ", "c", "a", "d", "u", "c", "i", "d", "a", "d">>,
     <<"c", "a", "d", "u", "c", "i", "d", "a", "d">>,
     <<"c", "o", "n", "s", "u", "m", "i", "r", " ", "a", "n", "t", "e", "s", " ", "d", "e">>,
     <<"f", "c", "h", " ", "c", "a", "d">>,
     <<"v", "e", "n", "c", "e">>,
     <<"v", "e", "n", "c", "i", "m", "i", "e", "n", "t", "o">>,
     <<"d", "a", " ", "c", "o", "n", "s", "u", "m", "a", "r", "s", "i", " ", "p", "r", "e", "f", "e", "r", "i", "b", "i", "l", "m", "e", "n", "t", "e", " ", "e", "n", "t", "r", "o">>,
     <<"d", "a", " ", "c", "o", "n", "s", "u", "m", "a", "r", "e", " ", "e", "n", "t", "r", "o">>,
     <<"s", "c", "a", "d", "e", "n", "z", "a">>,
     <<"s", "c", "a", "d">>,
     <<"c", "o", "n", "s", "u", "m", "i", "r", " ", "d", "e", " ", "p", "r", "e", "f", "e", "r", "e", "n", "c", "i", "a", " ", "a", "n", "t", "e", "s", " ", "d", "e">>,
     <<"v", "a", "l", "i", "d", "a", "d", "e">>,
     <<"v", "a", "l">>,
     <<"c", "o", "n", "s", "u", "m", "i", "r", " ", "a", "t", "e">>,
     <<"t", "e", "n", " ", "m", "i", "n", "s", "t", "e", " ", "h", "o", "u", "d", "b", "a", "a", "r", " ", "t", "o", "t">>,
     <<"t", "h", "t">>,
     <<"t", "e", " ", "g", "e", "b", "r", "u", "i", "k", "e", "n", " ", "t", "o", "t">>,
     <<"t", "g", "t">>,
     <<"h", "o", "u", "d", "b", "a", "a", "r", " ", "t", "o", "t">>,
     <<"n", "a", "j", "l", "e", "p", "i", "e", "j", " ", "s", "p", "o", "z", "y", "c", " ", "p", "r", "z", "e", "d">>,
     <<"t", "e", "r", "m", "i", "n", " ", "p", "r", "z", "y", "d", "a", "t", "n", "o", "s", "c", "i">>,
     <<"d", "a", "t", "a", " ", "w", "a", "z", "n", "o", "s", "c", "i">> >>

ALL_MONTHS ==
  << <<<<"j", "a", "n", "v", "i", "e", "r">>, 1>>,
     <<<<"j", "a", "n", "v">>, 1>>,
     <<<<"j", "a", "n">>, 1>>,
     <<<<"f", "é", "v", "r", "i", "e", "r">>, 2>>,
     <<<<"f", "e", "v", "r", "i", "e", "r">>, 2>>,
     <<<<"f", "é", "v">>, 2>>,
     <<<<"f", "e", "v">>, 2>>,
     <<<<"f", "e", "v", "r">>, 2>>,
     <<<<"m", "a", "r", "s">>, 3>>,
     <<<<"m", "a", "r">>, 3>>,
     <<<<"a", "v", "r", "i", "l">>, 4>>,
     <<<<"a", "v", "r">>, 4>>,
     <<<<"m", "a", "i">>, 5>>,
     <<<<"j", "u", "i", "n">>, 6>>,
     <<<<"j", "u", "n">>, 6>>,
     <<<<"j", "u", "i", "l", "l", "e", "t">>, 7>>,
     <<<<"j", "u", "i", "l">>, 7>>,
     <<<<"j", "u", "l">>, 7>>,
     <<<<"a", "o", "û", "t">>, 8>>,
     <<<<"a", "o", "u", "t">>, 8>>,
     <<<<"a", "o", "u">>, 8>>,
     <<<<"s", "e", "p", "t", "e", "m", "b", "r", "e">>, 9>>,
     <<<<"s", "e", "p", "t">>, 9>>,
     <<<<"s", "e", "p">>, 9>>,
     <<<<"o", "c", "t", "o", "b", "r", "e">>, 10>>,
     <<<<"o", "c", "t">>, 10>>,
     <<<<"n", "o", "v", "e", "m", "b", "r", "e">>, 11>>,
     <<<<"n", "o", "v">>, 11>>,
     <<<<"d", "é", "c", "e", "m", "b", "r", "e">>, 12>>,
     <<<<"d", "e", "c", "e", "m", "b", "r", "e">>, 12>>,
     <<<<"d", "é", "c">>, 12>>,
     <<<<"d", "e", "c">>, 12>>,
     <<<<"j", "a", "n", "u", "a", "r", "y">>, 1>>,
     <<<<"f", "e", "b", "r", "u", "a", "r", "y">>, 2>>,
     <<<<"f", "e", "b">>, 2>>,
     <<<<"m", "a", "r", "c", "h">>, 3>>,
     <<<<"a", "p", "r", "i", "l">>, 4>>,
     <<<<"a", "p", "r">>, 4>>,
     <<<<"m", "a", "y">>, 5>>,
     <<<<"j", "u", "n", "e">>, 6>>,
     <<<<"j", "u", "l", "y">>, 7>>,
     <<<<"a", "u", "g", "u", "s", "t">>, 8>>,
     <<<<"a", "u", "g">>, 8>>,
     <<<<"s", "e", "p", "t", "e", "m", "b", "e", "r">>, 9>>,
     <<<<"o", "c", "t", "o", "b", "e", "r">>, 10>>,
     <<<<"n", "o", "v", "e", "m", "b", "e", "r">>, 11>>,
     <<<<"d", "e", "c", "e", "m", "b", "e", "r">>, 12>>,
     <<<<"j", "a", "n", "u", "a", "r">>, 1>>,
     <<<<"j", "ä", "n">>, 1>>,
     <<<<"f", "e", "b", "r", "u", "a", "r">>, 2>>,
     <<<<"m", "ä", "r", "z">>, 3>>,
     <<<<"m", "a", "r", "z">>, 3>>,
     <<<<"m", "r", "z">>, 3>>,
     <<<<"j", "u", "n", "i">>, 6>>,
     <<<<"j", "u", "l", "i">>, 7>>,
     <<<<"o", "k", "t", "o", "b", "e", "r">>, 10>>,
     <<<<"o", "k", "t">>, 10>>,
     <<<<"d", "e", "z", "e", "m", "b", "e", "r">>, 12>>,
     <<<<"d", "e", "z">>, 12>>,
     <<<<"e", "n", "e", "r", "o">>, 1>>,
     <<<<"e", "n", "e">>, 1>>,
     <<<<"f", "e", "b", "r", "e", "r", "o">>, 2>>,
     <<<<"m", "a", "r", "z", "o">>, 3>>,
     <<<<"a", "b", "r", "i", "l">>, 4>>,
     <<<<"a", "b", "r">>, 4>>,
     <<<<"m", "a", "y", "o">>, 5>>,
     <<<<"j", "u", "n", "i", "o">>, 6>>,
     <<<<"j", "u", "l", "i", "o">>, 7>>,
     <<<<"a", "g", "o", "s", "t", "o">>, 8>>,
     <<<<"a", "g", "o">>, 8>>,
     <<<<"s", "e", "p", "t", "i", "e", "m", "b", "r", "e">>, 9>>,
     <<<<"o", "c", "t", "u", "b", "r", "e">>, 10>>,
     <<<<"n", "o", "v", "i", "e", "m", "b", "r", "e">>, 11>>,
     <<<<"d", "i", "c", "i", "e", "m", "b", "r", "e">>, 12>>,
     <<<<"d", "i", "c">>, 12>>,
     <<<<"g", "e", "n", "n", "a", "i", "o">>, 1>>,
     <<<<"g", "e", "n">>, 1>>,
     <<<<"f", "e", "b", "b", "r", "a", "i", "o">>, 2>>,
     <<<<"a", "p", "r", "i", "l", "e">>, 4>>,
     <<<<"m", "a", "g", "g", "i", "o">>, 5>>,
     <<<<"m", "a", "g">>, 5>>,
     <<<<"g", "i", "u", "g", "n", "o">>, 6>>,
     <<<<"g", "i", "u">>, 6>>,
     <<<<"l", "u", "g", "l", "i", "o">>, 7>>,
     <<<<"l", "u", "g">>, 7>>,
     <<<<"s", "e", "t", "t", "e", "m", "b", "r", "e">>, 9>>,
     <<<<"s", "e", "t">>, 9>>,
     <<<<"o", "t", "t", "o", "b", "r", "e">>, 10>>,
     <<<<"o", "t", "t">>, 10>>,
     <<<<"d", "i", "c", "e", "m", "b", "r", "e">>, 12>>,
     <<<<"j", "a", "n", "e", "i", "r", "o">>, 1>>,
     <<<<"f", "e", "v", "e", "r", "e", "i", "r", "o">>, 2>>,
     <<<<"m", "a", "r", "ç", "o">>, 3>>,
     <<<<"m", "a", "r", "c", "o">>, 3>>,
     <<<<"m", "a", "i", "o">>, 5>>,
     <<<<"j", "u", "n", "h", "o">>, 6>>,
     <<<<"j", "u", "l", "h", "o">>, 7>>,
     <<<<"s", "e", "t", "e", "m", "b", "r", "o">>, 9>>,
     <<<<"o", "u", "t", "u", "b", "r", "o">>, 10>>,
     <<<<"o", "u", "t">>, 10>>,
     <<<<"n", "o", "v", "e", "m", "b", "r", "o">>, 11>>,
     <<<<"d", "e", "z", "e", "m", "b", "r", "o">>, 12>>,
     <<<<"j", "a", "n", "u", "a", "r", "i">>, 1>>,
     <<<<"f", "e", "b", "r", "u", "a", "r", "i">>, 2>>,
     <<<<"m", "a", "a", "r", "t">>, 3>>,
     <<<<"m", "r", "t">>, 3>>,
     <<<<"m", "e", "i">>, 5>>,
     <<<<"a", "u", "g", "u", "s", "t", "u", "s">>, 8>>,
     <<<<"s", "t", "y", "c", "z", "e", "U+0144">>, 1>>,
     <<<<"s", "t", "y", "c", "z", "e", "n">>, 1>>,
     <<<<"s", "t", "y">>, 1>>,
     <<<<"l", "u", "t", "y">>, 2>>,
     <<<<"l", "u", "t">>, 2>>,
     <<<<"m", "a", "r", "z", "e", "c">>, 3>>,
     <<<<"k", "w", "i", "e", "c", "i", "e", "U+0144">>, 4>>,
     <<<<"k", "w", "i", "e", "c", "i", "e", "n">>, 4>>,
     <<<<"k", "w", "i">>, 4>>,
     <<<<"m", "a", "j">>, 5>>,
     <<<<"c", "z", "e", "r", "w", "i", "e", "c">>, 6>>,
     <<<<"c", "z", "e">>, 6>>,
     <<<<"l", "i", "p", "i", "e", "c">>, 7>>,
     <<<<"l", "i", "p">>, 7>>,
     <<<<"s", "i", "e", "r", "p", "i", "e", "U+0144">>, 8>>,
     <<<<"s", "i", "e", "r", "p", "i", "e", "n">>, 8>>,
     <<<<"s", "i", "e">>, 8>>,
     <<<<"w", "r", "z", "e", "s", "i", "e", "U+0144">>, 9>>,
     <<<<"w", "r", "z", "e", "s", "i", "e", "n">>, 9>>,
     <<<<"w", "r", "z">>, 9>>,
     <<<<"p", "a", "U+017A", "d", "z", "i", "e", "r", "n", "i", "k">>, 10>>,
     <<<<"p", "a", "z", "d", "z", "i", "e", "r", "n", "i", "k">>, 10>>,
     <<<<"p", "a", "U+017A">>, 10>>,
     <<<<"l", "i", "s", "t", "o", "p", "a", "d">>, 11>>,
     <<<<"l", "i", "s">>, 11>>,
     <<<<"g", "r", "u", "d", "z", "i", "e", "U+0144">>, 12>>,
     <<<<"g", "r", "u", "d", "z", "i", "e", "n">>, 12>>,
     <<<<"g", "r", "u">>, 12>> >>

\* normalizeText(keyword), as computed inside the loops over ALL_KEYWORDS
NormKeywords == [i \in 1..Len(ALL_KEYWORDS) |-> normalizeText(ALL_KEYWORDS[i])]

\* normalizeText(name), as computed inside the loop over ALL_MONTHS
NormMonthNames == [i \in 1..Len(ALL_MONTHS) |-> normalizeText(ALL_MONTHS[i][1])]

StartsWith(s, p) == Len(p) <= Len(s) /\ SubSeq(s, 1, Len(p)) = p

\* Mutant of parseMonth: the loop over the month names left out.
parseMonthNumeric(text) ==
  With(normalizeText(text), LAMBDA normalized :
    With(ParseInt(normalized), LAMBDA num :
      IF ~ParseIntIsNaN(normalized) /\ num >= 1 /\ num <= 12 THEN num ELSE 0))

\* Mutant of parseMonth: only a token equal to a name is resolved.
parseMonthExactOnly(text) ==
  With(normalizeText(text), LAMBDA normalized :
    With(ParseInt(normalized), LAMBDA num :
      IF ~ParseIntIsNaN(normalized) /\ num >= 1 /\ num <= 12 THEN num
      ELSE With({i \in 1..Len(ALL_MONTHS) : normalized = NormMonthNames[i]},
                LAMBDA hits : IF hits # {} THEN ALL_MONTHS[Min(hits)][2] ELSE 0)))

\* The month number of a token, 0 for null.
parseMonth(text) ==
  With(normalizeText(text), LAMBDA normalized :
    With(ParseInt(normalized), LAMBDA num :
      IF ~ParseIntIsNaN(normalized) /\ num >= 1 /\ num <= 12 THEN num
      ELSE With({i \in 1..Len(ALL_MONTHS) : StartsWith(normalized, NormMonthNames[i])},
                LAMBDA hits : IF hits # {} THEN ALL_MONTHS[Min(hits)][2] ELSE 0)))

(***************************************************************************)
(* Calendar dates (the local-time Date constructor and its getters)        *)
(***************************************************************************)
NullDate == [y |-> 0, m |-> 0, d |-> 0]

IsLeap(y) == (y % 4 = 0 /\ y % 100 # 0) \/ y % 400 = 0

DaysInMonth(y, m) ==
  IF m = 2 THEN (IF IsLeap(y) THEN 29 ELSE 28)
  ELSE IF m \in {4, 6, 9, 11} THEN 30 ELSE 31

\* new Date(year, monthIndex, day) for monthIndex in 0..12 and day in 0..31:
\* a year 0..99 means 1900 + year, and an overflowing month or day rolls over.
NewDate(year, monthIndex, day) ==
  LET y0 == IF year \in 0..99 THEN 1900 + year ELSE year
      y1 == y0 + (monthIndex \div 12)
      m1 == (monthIndex % 12) + 1
      py == IF m1 = 1 THEN y1 - 1 ELSE y1
      pm == IF m1 = 1 THEN 12 ELSE m1 - 1
      ny == IF m1 = 12 THEN y1 + 1 ELSE y1
      nm == IF m1 = 12 THEN 1 ELSE m1 + 1
  IN  IF day = 0 THEN [y |-> py, m |-> pm, d |-> DaysInMonth(py, pm)]
      ELSE IF day > DaysInMonth(y1, m1)
        THEN [y |-> ny, m |-> nm, d |-> day - DaysInMonth(y1, m1)]
      ELSE [y |-> y1, m |-> m1, d |-> day]

\* a <= b on dates
DateLE(a, b) ==
  \/ a.y < b.y
  \/ a.y = b.y /\ a.m < b.m
  \/ a.y = b.y /\ a.m = b.m /\ a.d <= b.d

getExpiryDetectionPastYears == expiryDetectionPastYears

\* Mutant of isReasonableDate: both ends of the window excluded.
isReasonableDateExclusive(date) ==
  With(date, LAMBDA day :
    With(getExpiryDetectionPastYears, LAMBDA pastYears :
      /\ day # NewDate(now.y - pastYears, now.m - 1, now.d)
      /\ day # NewDate(now.y + 10, now.m - 1, now.d)
      /\ DateLE(NewDate(now.y - pastYears, now.m - 1, now.d), day)
      /\ DateLE(day, NewDate(now.y + 10, now.m - 1, now.d))))

isReasonableDate(date) ==
  With(date, LAMBDA day :
    With(getExpiryDetectionPastYears, LAMBDA pastYears :
      /\ DateLE(NewDate(now.y - pastYears, now.m - 1, now.d), day)
      /\ DateLE(day, NewDate(now.y + 10, now.m - 1, now.d))))

(***************************************************************************)
(* Parsing results                                                         *)
(***************************************************************************)
\* The null a matcher or a resolver returns.
Null == [isNull |-> TRUE]

\* A ParsedDate without detectedKeyword (the empty sequence stands for the
\* absent field).  The field read is not a field of the code's object: it
\* records the year, month and day the matcher decomposed the text into, a
\* year below 100 standing for the year expandYear makes of it, and a day
\* of 0 for the month-only layouts.
ParsedDate(date, confidence, format, read) ==
  [date |-> date, confidence |-> confidence, format |-> format,
   detectedKeyword |-> <<>>, read |-> read]

NoRead == [y |-> 0, m |-> 0, d |-> 0]

Ymd(y, m, d) == [y |-> y, m |-> m, d |-> d]

(***************************************************************************)
(* Regular expressions: String.prototype.match without the g flag returns  *)
(* the match that starts leftmost, and at that start the first one in the  *)
(* backtracking order (longer digit groups first).                         *)
(***************************************************************************)
NoMatch == [found |-> FALSE]

\* The candidate of least rank among the candidates of a match, handed to
\* Groups; no match when there is no candidate.
Leftmost(cands, Rank(_), Groups(_)) ==
  With(cands, LAMBDA found :
    IF found = {} THEN NoMatch
    ELSE With(CHOOSE best \in found : \A other \in found : Rank(best) <= Rank(other),
              Groups))

DigitStarts(s) == {i \in 1..Len(s) : s[i] \in Digits}

LetterStarts(s) == {i \in 1..Len(s) : s[i] \in LetterClass}

\* /(\d{1,2})SEP(\d{1,2})SEP(\d{ylen})/, followed by (?!\d) when noDigitAfter
MatchThreeNumbers(text, SEP, ylen, noDigitAfter) ==
  With(text, LAMBDA s :
    LET Rank(c) == 4 * c[1] - 2 * c[2] - c[3]
        Groups(c) ==
          [found |-> TRUE,
           g1 |-> DigitsValue(s, c[1], c[2]),
           g2 |-> DigitsValue(s, c[1] + c[2] + 1, c[3]),
           g3 |-> DigitsValue(s, c[1] + c[2] + c[3] + 2, ylen)]
    IN  Leftmost({c \in DigitStarts(s) \X {1, 2} \X {1, 2} :
                    /\ AllIn(s, c[1], c[2], Digits)
                    /\ At(s, c[1] + c[2]) \in SEP
                    /\ AllIn(s, c[1] + c[2] + 1, c[3], Digits)
                    /\ At(s, c[1] + c[2] + c[3] + 1) \in SEP
                    /\ AllIn(s, c[1] + c[2] + c[3] + 2, ylen, Digits)
                    /\ (noDigitAfter => At(s, c[1] + c[2] + c[3] + 2 + ylen) \notin Digits)},
                 Rank, Groups))

\* /(\d{4})[\/\-\.](\d{1,2})[\/\-\.](\d{1,2})/
MatchISO(text) ==
  With(text, LAMBDA s :
    LET Rank(c) == 2 * c[1] - c[2]
        DayPos(c) == c[1] + 6 + c[2]
        Groups(c) ==
          [found |-> TRUE,
           g1 |-> DigitsValue(s, c[1], 4),
           g2 |-> DigitsValue(s, c[1] + 5, c[2]),
           g3 |-> DigitsValue(s, DayPos(c), IF At(s, DayPos(c) + 1) \in Digits THEN 2 ELSE 1)]
    IN  Leftmost({c \in DigitStarts(s) \X {1, 2} :
                    /\ AllIn(s, c[1], 4, Digits)
                    /\ At(s, c[1] + 4) \in StrictSepClass
                    /\ AllIn(s, c[1] + 5, c[2], Digits)
                    /\ At(s, c[1] + 5 + c[2]) \in StrictSepClass
                    /\ At(s, DayPos(c)) \in Digits},
                 Rank, Groups))

\* /(\d{1,2})\s*([a-z...]{3,})\s*(\d{2,4})/i
MatchDayMonthYear(text) ==
  With(text, LAMBDA s :
    LET LetterPos(c) == c[1] + c[2] + RunLen(s, c[1] + c[2], Whitespace)
        Letters(c) == RunLen(s, LetterPos(c), LetterClass)
        YearPos(c) == LetterPos(c) + Letters(c) + RunLen(s, LetterPos(c) + Letters(c), Whitespace)
        Rank(c) == 2 * c[1] - c[2]
        Groups(c) ==
          [found |-> TRUE,
           g1 |-> DigitsValue(s, c[1], c[2]),
           g2 |-> SubSeq(s, LetterPos(c), LetterPos(c) + Letters(c) - 1),
           g3 |-> DigitsValue(s, YearPos(c), Min({4, RunLen(s, YearPos(c), Digits)}))]
    IN  Leftmost({c \in DigitStarts(s) \X {1, 2} :
                    /\ AllIn(s, c[1], c[2], Digits)
                    /\ Letters(c) >= 3
                    /\ RunLen(s, YearPos(c), Digits) >= 2},
                 Rank, Groups))

\* /([a-z...]{3,})\s*(\d{1,2})\s*[,\s]*(\d{2,4})/i
MatchMonthDayYear(text) ==
  With(text, LAMBDA s :
    LET Letters(c) == RunLen(s, c[1], LetterClass)
        DayPos(c) == c[1] + Letters(c) + RunLen(s, c[1] + Letters(c), Whitespace)
        YearPos(c) == DayPos(c) + c[2] + RunLen(s, DayPos(c) + c[2], CommaSpaceClass)
        Rank(c) == 2 * c[1] - c[2]
        Groups(c) ==
          [found |-> TRUE,
           g1 |-> SubSeq(s, c[1], c[1] + Letters(c) - 1),
           g2 |-> DigitsValue(s, DayPos(c), c[2]),
           g3 |-> DigitsValue(s, YearPos(c), Min({4, RunLen(s, YearPos(c), Digits)}))]
    IN  Leftmost({c \in LetterStarts(s) \X {1, 2} :
                    /\ Letters(c) >= 3
                    /\ AllIn(s, DayPos(c), c[2], Digits)
                    /\ RunLen(s, YearPos(c), Digits) >= 2},
                 Rank, Groups))

\* Mutant of MatchMonthNameYear: the separators between the name and the
\* year may be missing.
MatchMonthNameYearOptionalSeparator(text) ==
  With(text, LAMBDA s :
    LET Letters(c) == RunLen(s, c[1], LetterClass)
        Seps(c) == RunLen(s, c[1] + Letters(c), SepClass)
        YearPos(c) == c[1] + Letters(c) + Seps(c)
        Rank(c) == c[1]
        Groups(c) ==
          [found |-> TRUE,
           g1 |-> SubSeq(s, c[1], c[1] + Letters(c) - 1),
           g2 |-> DigitsValue(s, YearPos(c), RunLen(s, YearPos(c), Digits))]
    IN  Leftmost({c \in LetterStarts(s) \X {0} :
                    /\ Letters(c) >= 3
                    /\ RunLen(s, YearPos(c), Digits) \in 2..4},
                 Rank, Groups))

\* /([a-z...]{3,})[\s\/\-\.]+(\d{2,4})(?!\d)/i
MatchMonthNameYear(text) ==
  With(text, LAMBDA s :
    LET Letters(c) == RunLen(s, c[1], LetterClass)
        Seps(c) == RunLen(s, c[1] + Letters(c), SepClass)
        YearPos(c) == c[1] + Letters(c) + Seps(c)
        Rank(c) == c[1]
        Groups(c) ==
          [found |-> TRUE,
           g1 |-> SubSeq(s, c[1], c[1] + Letters(c) - 1),
           g2 |-> DigitsValue(s, YearPos(c), RunLen(s, YearPos(c), Digits))]
    IN  Leftmost({c \in LetterStarts(s) \X {0} :
                    /\ Letters(c) >= 3
                    /\ Seps(c) >= 1
                    /\ RunLen(s, YearPos(c), Digits) \in 2..4},
                 Rank, Groups))

\* /(\d{1,2})[\/\-\.\s]+(\d{ylen})/, followed by (?!\d) when noDigitAfter
MatchMonthNumberYear(text, ylen, noDigitAfter) ==
  With(text, LAMBDA s :
    LET YearPos(c) == c[1] + c[2] + RunLen(s, c[1] + c[2], SepClass)
        Rank(c) == 2 * c[1] - c[2]
        Groups(c) ==
          [found |-> TRUE,
           g1 |-> DigitsValue(s, c[1], c[2]),
           g2 |-> DigitsValue(s, YearPos(c), ylen)]
    IN  Leftmost({c \in DigitStarts(s) \X {1, 2} :
                    /\ AllIn(s, c[1], c[2], Digits)
                    /\ RunLen(s, c[1] + c[2], SepClass) >= 1
                    /\ AllIn(s, YearPos(c), ylen, Digits)
                    /\ (noDigitAfter => At(s, YearPos(c) + ylen) \notin Digits)},
                 Rank, Groups))

(***************************************************************************)
(* Date pattern matchers                                                   *)
(***************************************************************************)
\* Mutant of KeepsDay: the round-trip check left out.
KeepsDayAlways(date, day) == TRUE

\* date.getDate() === day: the constructed date did not roll over
KeepsDay(date, day) == date.d = day

\* The check shared by the day-bearing matchers after decomposition.
DayDate(day, month, year, confidence, format) ==
  IF day >= 1 /\ day <= 31 /\ month >= 1 /\ month <= 12
    THEN With(NewDate(year, month - 1, day), LAMBDA date :
           IF KeepsDay(date, day) /\ isReasonableDate(date)
             THEN ParsedDate(date, confidence, format, Ymd(expandYear(year), month, day))
             ELSE Null)
    ELSE Null

tryDMYPattern(match) ==
  With(match, LAMBDA m :
    IF m.found THEN DayDate(m.g1, m.g2, expandYear(m.g3), "high", "DD/MM/YYYY") ELSE Null)

tryDMY(text) ==
  With(tryDMYPattern(MatchThreeNumbers(text, SepClass, 4, FALSE)), LAMBDA first :
    IF first # Null THEN first
    ELSE tryDMYPattern(MatchThreeNumbers(text, SepClass, 2, TRUE)))

tryISO(text) ==
  With(MatchISO(text), LAMBDA m :
    IF m.found THEN DayDate(m.g3, m.g2, m.g1, "high", "YYYY-MM-DD") ELSE Null)

\* Mutant of tryMDYPattern: a month equal to the day is let through.
tryMDYPatternEqualAllowed(match) ==
  With(match, LAMBDA m :
    IF m.found
      THEN DayDate(m.g2, m.g1, expandYear(m.g3), "medium", "MM/DD/YYYY (US)")
      ELSE Null)

tryMDYPattern(match) ==
  With(match, LAMBDA m :
    IF m.found /\ m.g1 # m.g2
      THEN DayDate(m.g2, m.g1, expandYear(m.g3), "medium", "MM/DD/YYYY (US)")
      ELSE Null)

tryMDY(text) ==
  With(tryMDYPattern(MatchThreeNumbers(text, SlashDashClass, 4, FALSE)), LAMBDA first :
    IF first # Null THEN first
    ELSE tryMDYPattern(MatchThreeNumbers(text, SlashDashClass, 2, TRUE)))

\* The check shared by the two matchers that read a month name and a day.
NamedDayDate(day, monthName, year, format) ==
  With(parseMonth(monthName), LAMBDA month :
    IF month # 0 /\ day >= 1 /\ day <= 31
      THEN With(NewDate(year, month - 1, day), LAMBDA date :
             IF KeepsDay(date, day) /\ isReasonableDate(date)
               THEN ParsedDate(date, "high", format, Ymd(expandYear(year), month, day))
               ELSE Null)
      ELSE Null)

tryDayMonthYear(text) ==
  With(MatchDayMonthYear(text), LAMBDA m :
    IF m.found THEN NamedDayDate(m.g1, m.g2, expandYear(m.g3), "DD MMM YYYY") ELSE Null)

tryMonthDayYear(text) ==
  With(MatchMonthDayYear(text), LAMBDA m :
    IF m.found THEN NamedDayDate(m.g2, m.g1, expandYear(m.g3), "MMM DD YYYY") ELSE Null)

\* The day of the month that tryMonthYear hands to isReasonableDate.
MonthYearCheckedDate(year, month) == NewDate(year, month - 1, 1)

\* The month and the year read by the first pattern of tryMonthYear, 0 for
\* a null month and for the variables left undefined.
MonthYearByName(text) ==
  With(MatchMonthNameYear(text), LAMBDA match1 :
    IF match1.found
      THEN [month |-> parseMonth(match1.g1), year |-> expandYear(match1.g2)]
      ELSE [month |-> 0, year |-> 0])

\* The second pattern of tryMonthYear: its four-digit form, else its
\* two-digit form.
MonthYearByNumber(text) ==
  With(MatchMonthNumberYear(text, 4, FALSE), LAMBDA long :
    IF long.found THEN long ELSE MatchMonthNumberYear(text, 2, TRUE))

\* if ((!month || !year) && match2 && 1 <= m <= 12) { month = m; year = ... }
MonthYearRead(text) ==
  With(MonthYearByName(text), LAMBDA byName :
    IF byName.month = 0 \/ byName.year = 0
      THEN With(MonthYearByNumber(text), LAMBDA match2 :
             IF match2.found /\ match2.g1 >= 1 /\ match2.g1 <= 12
               THEN [month |-> match2.g1, year |-> expandYear(match2.g2)]
               ELSE byName)
      ELSE byName)

\* Mutant of tryMonthYear: the first day of the month is returned, the day
\* that was checked.
tryMonthYearFirstDay(text) ==
  With(MonthYearRead(text), LAMBDA read :
    IF /\ read.month # 0
       /\ read.year # 0
       /\ isReasonableDate(MonthYearCheckedDate(read.year, read.month))
      THEN ParsedDate(MonthYearCheckedDate(read.year, read.month), "medium",
                      "MMM YYYY (fin de mois)", Ymd(read.year, read.month, 0))
      ELSE Null)

tryMonthYear(text) ==
  With(MonthYearRead(text), LAMBDA read :
    IF /\ read.month # 0
       /\ read.year # 0
       /\ isReasonableDate(MonthYearCheckedDate(read.year, read.month))
      THEN ParsedDate(NewDate(read.year, read.month, 0), "medium", "MMM YYYY (fin de mois)",
                      Ymd(read.year, read.month, 0))
      ELSE Null)

\* Mutant of DigitsOf: the digits the text starts with, up to the first
\* other character.
DigitsOfLeadingRun(text) == SubSeq(text, 1, RunLen(text, 1, Digits))

\* text.replace(/\D/g, '')
DigitsOf(text) == SelectSeq(text, LAMBDA c : c \in Digits)

tryNumeric(text) ==
  With(DigitsOf(text), LAMBDA digits :
    IF Len(digits) = 8
      THEN With(DayDate(DigitsValue(digits, 1, 2), DigitsValue(digits, 3, 2),
                        DigitsValue(digits, 5, 4), "high", "DDMMYYYY"),
                LAMBDA ddmmyyyy :
                  IF ddmmyyyy # Null THEN ddmmyyyy
                  ELSE DayDate(DigitsValue(digits, 7, 2), DigitsValue(digits, 5, 2),
                               DigitsValue(digits, 1, 4), "high", "YYYYMMDD"))
    ELSE IF Len(digits) = 6
      THEN DayDate(DigitsValue(digits, 1, 2), DigitsValue(digits, 3, 2),
                   expandYear(DigitsValue(digits, 5, 2)), "medium", "DDMMYY")
    ELSE IF Len(digits) = 4
      THEN With(DigitsValue(digits, 1, 2), LAMBDA month :
           With(expandYear(DigitsValue(digits, 3, 2)), LAMBDA year :
             IF month >= 1 /\ month <= 12 /\ isReasonableDate(NewDate(year, month, 0))
               THEN ParsedDate(NewDate(year, month, 0), "low", "MMYY (fin de mois)",
                               Ymd(year, month, 0))
               ELSE Null))
    ELSE Null)

(***************************************************************************)
(* Resolvers                                                               *)
(***************************************************************************)
Apply(parser, text) ==
  CASE parser = "tryDMY" -> tryDMY(text)
    [] parser = "tryISO" -> tryISO(text)
    [] parser = "tryMDY" -> tryMDY(text)
    [] parser = "tryDayMonthYear" -> tryDayMonthYear(text)
    [] parser = "tryMonthDayYear" -> tryMonthDayYear(text)
    [] parser = "tryMonthYear" -> tryMonthYear(text)
    [] parser = "tryNumeric" -> tryNumeric(text)

\* result && result.date
HasDate(r) == r # Null /\ r.date # NullDate

\* One entry of the trace: which parser ran at which stage, the window the
\* validity check read, and whether the attempt produced a date.
Attempt(stage, parser, r) ==
  [stage |-> stage, parser |-> parser, window |-> getExpiryDetectionPastYears,
   hit |-> HasDate(r)]

RECURSIVE FirstSuccess(_, _, _, _)
\* for (const parser of parsers) { result = parser(text); if (result && result.date) return }
FirstSuccess(parsers, text, stage, i) ==
  IF i > Len(parsers) THEN [res |-> Null, trace |-> <<>>]
  ELSE With(Apply(parsers[i], text), LAMBDA r :
         IF HasDate(r)
           THEN [res |-> r, trace |-> <<Attempt(stage, parsers[i], r)>>]
           ELSE With(FirstSuccess(parsers, text, stage, i + 1), LAMBDA rest :
                  [res |-> rest.res,
                   trace |-> <<Attempt(stage, parsers[i], r)>> \o rest.trace]))

\* Mutant of KeywordParsers: the month-year matcher first.
KeywordParsersMonthYearFirst ==
  <<"tryMonthYear", "tryDMY", "tryISO", "tryDayMonthYear", "tryMonthDayYear", "tryNumeric">>

\* Mutant of KeywordParsers: the US matcher tried as well, last.
KeywordParsersWithUS ==
  <<"tryDMY", "tryISO", "tryDayMonthYear", "tryMonthDayYear", "tryMonthYear", "tryNumeric",
    "tryMDY">>

KeywordParsers ==
  <<"tryDMY", "tryISO", "tryDayMonthYear", "tryMonthDayYear", "tryMonthYear", "tryNumeric">>

\* Mutant of WholeTextParsers: the US matcher first.
WholeTextParsersUSFirst ==
  <<"tryMDY", "tryDMY", "tryISO", "tryDayMonthYear", "tryMonthDayYear", "tryNumeric",
    "tryMonthYear">>

WholeTextParsers ==
  <<"tryDMY", "tryISO", "tryDayMonthYear", "tryMonthDayYear", "tryNumeric", "tryMonthYear",
    "tryMDY">>

\* p occurs in s at the 1-based position i.
OccursAt(s, p, i) ==
  i + Len(p) - 1 <= Len(s) /\ s[i] = p[1] /\ SubSeq(s, i, i + Len(p) - 1) = p

\* The positions at which p occurs in s.
Occurrences(s, p) == {i \in 1..Len(s) : OccursAt(s, p, i)}

\* s.indexOf(p) + 1: 0 when p does not occur
IndexOf(s, p) == With(Occurrences(s, p), LAMBDA at : IF at = {} THEN 0 ELSE Min(at))

\* afterKeyword.replace(/^[:\s\-\/\.]+/, '').trim()
AfterKeyword(normalized, keywordIndex, normalizedKeyword) ==
  With(SubSeq(normalized, keywordIndex + Len(normalizedKeyword), Len(normalized)),
       LAMBDA afterKeyword :
         Trim(SubSeq(afterKeyword, 1 + RunLen(afterKeyword, 1, TrimClass),
                     Len(afterKeyword))))

\* Mutant of KeywordLoop: the loop gives up when nothing is read after the
\* first keyword that occurs.
KeywordLoopFirstOnly(normalized, k) ==
  With({j \in k..Len(ALL_KEYWORDS) : Occurrences(normalized, NormKeywords[j]) # {}},
       LAMBDA present :
    IF present = {} THEN [res |-> Null, trace |-> <<>>]
    ELSE
      With(Min(present), LAMBDA j :
      With(AfterKeyword(normalized, IndexOf(normalized, NormKeywords[j]), NormKeywords[j]),
           LAMBDA cleaned :
      With(FirstSuccess(KeywordParsers, cleaned, "keyword", 1), LAMBDA r :
        IF HasDate(r.res)
          THEN [res |-> [r.res EXCEPT !.detectedKeyword = ALL_KEYWORDS[j]],
                trace |-> r.trace]
          ELSE [res |-> Null, trace |-> r.trace]))))

RECURSIVE KeywordLoop(_, _)
\* The loop of tryKeywordProximity from the k-th keyword on: the keywords
\* that do not occur (keywordIndex === -1) are passed over.
KeywordLoop(normalized, k) ==
  With({j \in k..Len(ALL_KEYWORDS) : Occurrences(normalized, NormKeywords[j]) # {}},
       LAMBDA present :
    IF present = {} THEN [res |-> Null, trace |-> <<>>]
    ELSE
      With(Min(present), LAMBDA j :
      With(AfterKeyword(normalized, IndexOf(normalized, NormKeywords[j]), NormKeywords[j]),
           LAMBDA cleaned :
      With(FirstSuccess(KeywordParsers, cleaned, "keyword", 1), LAMBDA r :
        IF HasDate(r.res)
          THEN [res |-> [r.res EXCEPT !.detectedKeyword = ALL_KEYWORDS[j]],
                trace |-> r.trace]
          ELSE With(KeywordLoop(normalized, j + 1), LAMBDA rest :
                 [res |-> rest.res, trace |-> r.trace \o rest.trace])))))

tryKeywordProximity(text) ==
  With(normalizeText(text), LAMBDA normalized : KeywordLoop(normalized, 1))

RECURSIVE ReplaceFrom(_, _, _)
ReplaceFrom(s, keyword, i) ==
  IF i > Len(s) THEN <<>>
  ELSE IF OccursAt(s, keyword, i)
    THEN <<" ">> \o With(i + Len(keyword) + RunLen(s, i + Len(keyword), ColonSpaceClass),
                         LAMBDA j : ReplaceFrom(s, keyword, j))
    ELSE <<s[i]>> \o ReplaceFrom(s, keyword, i + 1)

\* result.replace(new RegExp(keyword + '[:\\s]*', 'gi'), ' ')
ReplaceKeyword(s, keyword) ==
  With(s, LAMBDA chars : With(keyword, LAMBDA word : ReplaceFrom(chars, word, 1)))

RECURSIVE RemoveLoop(_, _)
\* The loop of removeKeywords from the k-th keyword on: a keyword that does
\* not occur replaces nothing.
RemoveLoop(s, k) ==
  With(s, LAMBDA current :
    With({j \in k..Len(ALL_KEYWORDS) : Occurrences(current, NormKeywords[j]) # {}},
         LAMBDA present :
      IF present = {} THEN current
      ELSE With(Min(present), LAMBDA j :
             RemoveLoop(ReplaceKeyword(current, NormKeywords[j]), j + 1))))

removeKeywords(text) == Trim(StripBoth(RemoveLoop(normalizeText(text), 1), TrimClass))

\* Mutant of IsBlank: the trim left out.
IsBlankEmptyOnly(text) == text = <<>>

\* !text || text.trim().length === 0
IsBlank(text) == text = <<>> \/ Trim(text) = <<>>

\* The results of the resolvers that have run, put together: the ParsedDate
\* of the last one and the attempts of all, in order.
Then(before, after) ==
  With(after, LAMBDA later : [res |-> later.res, trace |-> before.trace \o later.trace])

Only(parsed) == [res |-> parsed, trace |-> <<>>]

\* Mutant of parseExpiryDate: the whole-text matchers run before the keyword
\* resolver.
parseExpiryDateWholeTextFirst(text) ==
  IF IsBlank(text) THEN Only(ParsedDate(NullDate, "low", "empty", NoRead))
  ELSE
    With(normalizeText(text), LAMBDA normalized :
    With(removeKeywords(normalized), LAMBDA cleanedText :
    With(FirstSuccess(WholeTextParsers, cleanedText, "cleaned", 1), LAMBDA onCleaned :
      IF HasDate(onCleaned.res) THEN onCleaned
      ELSE
        With(Then(onCleaned, tryKeywordProximity(text)), LAMBDA keywordResult :
          IF HasDate(keywordResult.res) THEN keywordResult
          ELSE Then(keywordResult,
                    Only(ParsedDate(NullDate, "low", "unrecognized", NoRead)))))))

\* Mutant of parseExpiryDate: the final return left out, so that the null of
\* the last matcher is returned.
parseExpiryDateNoFallback(text) ==
  IF IsBlank(text) THEN Only(ParsedDate(NullDate, "low", "empty", NoRead))
  ELSE
    With(normalizeText(text), LAMBDA normalized :
    With(tryKeywordProximity(text), LAMBDA keywordResult :
      IF HasDate(keywordResult.res) THEN keywordResult
      ELSE
        With(removeKeywords(normalized), LAMBDA cleanedText :
        With(Then(keywordResult, FirstSuccess(WholeTextParsers, cleanedText, "cleaned", 1)),
             LAMBDA onCleaned :
          IF HasDate(onCleaned.res) THEN onCleaned
          ELSE Then(onCleaned, FirstSuccess(WholeTextParsers, normalized, "normalized", 1))))))

\* Mutant of parseExpiryDate: the matchers are not tried again on the
\* normalized text.
parseExpiryDateCleanedOnly(text) ==
  IF IsBlank(text) THEN Only(ParsedDate(NullDate, "low", "empty", NoRead))
  ELSE
    With(normalizeText(text), LAMBDA normalized :
    With(tryKeywordProximity(text), LAMBDA keywordResult :
      IF HasDate(keywordResult.res) THEN keywordResult
      ELSE
        With(removeKeywords(normalized), LAMBDA cleanedText :
        With(Then(keywordResult, FirstSuccess(WholeTextParsers, cleanedText, "cleaned", 1)),
             LAMBDA onCleaned :
          IF HasDate(onCleaned.res) THEN onCleaned
          ELSE Then(onCleaned,
                    Only(ParsedDate(NullDate, "low", "unrecognized", NoRead)))))))

\* The ParsedDate returned together with the attempts made, in order.
parseExpiryDate(text) ==
  IF IsBlank(text) THEN Only(ParsedDate(NullDate, "low", "empty", NoRead))
  ELSE
    With(normalizeText(text), LAMBDA normalized :
    With(tryKeywordProximity(text), LAMBDA keywordResult :
      IF HasDate(keywordResult.res) THEN keywordResult
      ELSE
        With(removeKeywords(normalized), LAMBDA cleanedText :
        With(Then(keywordResult, FirstSuccess(WholeTextParsers, cleanedText, "cleaned", 1)),
             LAMBDA onCleaned :
          IF HasDate(onCleaned.res) THEN onCleaned
          ELSE
            With(Then(onCleaned, FirstSuccess(WholeTextParsers, normalized, "normalized", 1)),
                 LAMBDA onNormalized :
              IF HasDate(onNormalized.res) THEN onNormalized
              ELSE Then(onNormalized,
                        Only(ParsedDate(NullDate, "low", "unrecognized", NoRead))))))))

(***************************************************************************)
(* OCR text processing                                                     *)
(***************************************************************************)
LineBreaks == {"\n", "\r"}

RECURSIVE SplitLines(_)
\* ocrText.split(/[\n\r]+/)
SplitLines(s) ==
  With(s, LAMBDA rest :
    With({i \in 1..Len(rest) : rest[i] \in LineBreaks}, LAMBDA breaks :
      IF breaks = {} THEN <<rest>>
      ELSE With(Min(breaks), LAMBDA i :
             <<SubSeq(rest, 1, i - 1)>>
               \o SplitLines(SubSeq(rest, i + RunLen(rest, i, LineBreaks), Len(rest))))))

\* const order = { high: 0, medium: 1, low: 2 }
ConfidenceOrder(confidence) ==
  CASE confidence = "high" -> 0
    [] confidence = "medium" -> 1
    [] confidence = "low" -> 2

\* The comparator of results.sort: negative, zero or positive
CompareConfidence(a, b) == ConfidenceOrder(a.confidence) - ConfidenceOrder(b.confidence)

RECURSIVE InsertAfterLess(_, _, _)
InsertAfterLess(sorted, x, i) ==
  IF i > Len(sorted) THEN <<x>>
  ELSE IF CompareConfidence(sorted[i], x) >= 0 THEN <<x>> \o SubSeq(sorted, i, Len(sorted))
  ELSE <<sorted[i]>> \o InsertAfterLess(sorted, x, i + 1)

\* Mutant of InsertSorted: x placed before the elements that compare equal.
InsertSortedUnstable(sorted, x) ==
  With(sorted, LAMBDA placed : With(x, LAMBDA new : InsertAfterLess(placed, new, 1)))

RECURSIVE InsertAfterEqual(_, _, _)
InsertAfterEqual(sorted, x, i) ==
  IF i > Len(sorted) THEN <<x>>
  ELSE IF CompareConfidence(sorted[i], x) > 0 THEN <<x>> \o SubSeq(sorted, i, Len(sorted))
  ELSE <<sorted[i]>> \o InsertAfterEqual(sorted, x, i + 1)

\* x placed after every element that does not compare greater than it
InsertSorted(sorted, x) ==
  With(sorted, LAMBDA placed : With(x, LAMBDA new : InsertAfterEqual(placed, new, 1)))

RECURSIVE SortFirst(_, _)
\* The first n elements of s, sorted.
SortFirst(s, n) == IF n = 0 THEN <<>> ELSE InsertSorted(SortFirst(s, n - 1), s[n])

\* Array.prototype.sort with the comparator above (a stable sort)
StableSort(s) == With(s, LAMBDA results : SortFirst(results, Len(results)))

RECURSIVE ParseLines(_, _)
\* parseExpiryDate(line).res for every line from the i-th on, in line order
ParseLines(lines, i) ==
  IF i > Len(lines) THEN <<>>
  ELSE <<parseExpiryDate(lines[i]).res>> \o ParseLines(lines, i + 1)

LineResults(ocrText) == With(SplitLines(ocrText), LAMBDA lines : ParseLines(lines, 1))

\* if (result.date) results.push(result)
CollectDated(perLine) == SelectSeq(perLine, LAMBDA r : r.date # NullDate)

\* The sorted array returned, together with the result of every line.
findDatesInOCRText(ocrText) ==
  With(LineResults(ocrText), LAMBDA perLine :
    [res |-> StableSort(CollectDated(perLine)), trace |-> perLine])

\* Mutant of PickBest: the preference for a keyword left out.
PickFirst(results) ==
  IF Len(results) > 0 THEN results[1]
  ELSE ParsedDate(NullDate, "low", "no_date_found", NoRead)

\* results.find(r => r.detectedKeyword), then results[0], then the default
PickBest(results) ==
  With({i \in 1..Len(results) : results[i].detectedKeyword # <<>>}, LAMBDA withKeyword :
    IF withKeyword # {} THEN results[Min(withKeyword)]
    ELSE IF Len(results) > 0 THEN results[1]
    ELSE ParsedDate(NullDate, "low", "no_date_found", NoRead))

getBestDateFromOCR(ocrText) ==
  With(findDatesInOCRText(ocrText), LAMBDA found :
    [res |-> PickBest(found.res), trace |-> found.trace])

(***************************************************************************)
(* Inputs                                                                  *)
(***************************************************************************)
Pad2(n) == <<DigitChars[((n \div 10) % 10) + 1], DigitChars[(n % 10) + 1]>>

Pad4(n) == Pad2(n \div 100) \o Pad2(n % 100)

\* Month names as printed on packaging, one per month.
MonthWord ==
  << <<"j", "a", "n", "v", "i", "e", "r">>, <<"f", "é", "v", "r", "i", "e", "r">>,
     <<"M", "A", "R", "S">>, <<"a", "p", "r", "i", "l">>, <<"m", "a", "i">>,
     <<"j", "u", "n", "e">>, <<"j", "u", "l", "i">>, <<"a", "o", "û", "t">>,
     <<"s", "e", "p", "t">>, <<"o", "k", "t">>, <<"n", "o", "v">>,
     <<"D", "é", "c", "e", "m", "b", "r", "e">> >>

\* The word printed for month m; a word that names no month when m is none.
WordOf(m) == IF m \in 1..Len(MonthWord) THEN MonthWord[m] ELSE <<"l", "o", "t">>

Layouts ==
  {"DD/MM/YYYY", "DD.MM.YY", "YYYY-MM-DD", "MM/DD/YYYY", "D MMM YYYY", "MMM D, YYYY",
   "MMM YYYY", "MM/YYYY", "DDMMYYYY", "YYYYMMDD", "DDMMYY", "MMYY"}

\* The text of the day d, month m, year y in a layout.
Render(layout, y, m, d) ==
  CASE layout = "DD/MM/YYYY" -> Pad2(d) \o <<"/">> \o Pad2(m) \o <<"/">> \o Pad4(y)
    [] layout = "DD.MM.YY"   -> Pad2(d) \o <<".">> \o Pad2(m) \o <<".">> \o Pad2(y % 100)
    [] layout = "YYYY-MM-DD" -> Pad4(y) \o <<"-">> \o Pad2(m) \o <<"-">> \o Pad2(d)
    [] layout = "MM/DD/YYYY" -> Pad2(m) \o <<"/">> \o Pad2(d) \o <<"/">> \o Pad4(y)
    [] layout = "D MMM YYYY" -> Pad2(d) \o <<" ">> \o WordOf(m) \o <<" ">> \o Pad4(y)
    [] layout = "MMM D, YYYY" -> WordOf(m) \o <<" ">> \o Pad2(d) \o <<",", " ">> \o Pad4(y)
    [] layout = "MMM YYYY"   -> WordOf(m) \o <<" ">> \o Pad4(y)
    [] layout = "MM/YYYY"    -> Pad2(m) \o <<"/">> \o Pad4(y)
    [] layout = "DDMMYYYY"   -> Pad2(d) \o Pad2(m) \o Pad4(y)
    [] layout = "YYYYMMDD"   -> Pad4(y) \o Pad2(m) \o Pad2(d)
    [] layout = "DDMMYY"     -> Pad2(d) \o Pad2(m) \o Pad2(y % 100)
    [] layout = "MMYY"       -> Pad2(m) \o Pad2(y % 100)

\* The days on which the program is run.
Todays == {Ymd(2024, 2, 29), Ymd(2026, 11, 3)}

\* The days written in the texts: around both ends of the validity window of
\* each day of Todays, overflowing days, and days within the window.
TextDates ==
  { Ymd(2022, 2, 28), Ymd(2022, 3, 1), Ymd(2023, 11, 3), Ymd(2024, 11, 2),
    Ymd(2024, 11, 3), Ymd(2025, 2, 29), Ymd(2025, 2, 31), Ymd(2025, 12, 24),
    Ymd(2026, 4, 31), Ymd(2026, 5, 5), Ymd(2026, 6, 12), Ymd(2027, 4, 3),
    Ymd(2027, 3, 15), Ymd(2028, 2, 29), Ymd(2034, 2, 28), Ymd(2034, 3, 1),
    Ymd(2034, 3, 2), Ymd(2036, 11, 3), Ymd(2036, 11, 4), Ymd(2036, 12, 31),
    Ymd(1976, 11, 2), Ymd(1976, 11, 3), Ymd(2027, 13, 1), Ymd(2027, 12, 32) }

\* A date in every layout, nothing around it.
DateTexts == {Render(l, t.y, t.m, t.d) : l \in Layouts, t \in TextDates}

\* "DLC: "
PrefixDLC == <<"D", "L", "C", ":", " ">>

\* "Best before "
PrefixBestBefore == <<"B", "e", "s", "t", " ", "b", "e", "f", "o", "r", "e", " ">>

\* "À consommer avant le "
PrefixConsommer ==
  <<"À", " ", "c", "o", "n", "s", "o", "m", "m", "e", "r", " ", "a", "v", "a", "n", "t", " ", "l", "e", " ">>

\* " lot 2504"
SuffixLot == <<" ", "l", "o", "t", " ", "2", "5", "0", "4">>

\* Texts that are no plain rendering of a date: blank input, codes without a
\* date, a date before a keyword, years written with leading zeros, dates
\* that read day first or month first, two keywords each with its date, a month
\* name that holds a keyword.
SpecialTexts ==
  { <<>>,
    <<" ", " ", " ">>,
    <<" ", "\t", " ">>,
    <<"A", "B", "C", "1", "2", "3">>,
    <<"q", "t", "y", " ", "4", "x", "2", "5", "0", "g">>,
    <<"l", "o", "t", "2", "5">>,
    <<"l", "o", "t", " ", "2", "5">>,
    <<"1", "5", "/", "0", "4", "/", "2", "0", "2", "7", " ", "e", "x", "p", " ", "0", "3", "/", "2", "0", "2", "8">>,
    <<"0", "0", "2", "5", "-", "0", "3", "-", "1", "5">>,
    <<"1", "5", "/", "0", "3", "/", "0", "0", "2", "5">>,
    <<"1", "5", " ", "m", "a", "r", "s", " ", "0", "0", "2", "5">>,
    <<"0", "0", "7", "6", "-", "1", "1", "-", "0", "3">>,
    <<"0", "3", "1", "1", "0", "0", "7", "6">>,
    <<"0", "3", "/", "0", "4", "/", "2", "0", "2", "5">>,
    <<"0", "5", "/", "1", "2", "/", "2", "0", "3", "6">>,
    <<"1", "5", " ", "f", "e", "b", "b", "r", "a", "i", "o", " ", "2", "0", "2", "7">>,
    <<"D", "L", "C", ":", " ", "0", "5", "/", "1", "2", "/", "2", "0", "3", "6">>,
    <<"e", "x", "p", " ", "0", "3", "/", "2", "0", "2", "8", " ", "d", "l", "c", " ", "0", "4", "/", "2", "0", "2", "7">>,
    <<"e", "x", "p", " ", "1", "2", "2", "7">>,
    <<"E", "X", "P", " ", "0", "3", "/", "2", "0", "2", "8", " ", "D", "L", "C">>,
    <<"b", "e", "s", "t", " ", "b", "e", "f", "o", "r", "e", " ", "e", "n", "d", " ", "0", "3", "/", "2", "0", "2", "7">>,
    <<"v", "a", "l", " ", "3", "1", "/", "0", "2", "/", "2", "0", "2", "7">> }

\* The lines OCR blocks are made of.
OcrLines ==
  << <<"A", "B", "C", "1", "2", "3">>,
     <<"B", "e", "s", "t", " ", "b", "e", "f", "o", "r", "e", " ", "1", "2", "/", "0", "6", "/", "2", "0", "2", "6">>,
     <<"1", "2", "2", "7">>,
     <<"1", "5", "/", "0", "4", "/", "2", "0", "2", "7">>,
     <<"e", "x", "p", " ", "0", "3", "/", "2", "0", "2", "8">>,
     <<>> >>

KeywordLayouts == {"DD/MM/YYYY", "D MMM YYYY", "MM/YYYY", "MMYY"}

KeywordDates ==
  {Ymd(2025, 2, 31), Ymd(2025, 3, 15), Ymd(2027, 3, 15), Ymd(2036, 11, 4), Ymd(2024, 11, 3)}

\* A date after an expiry keyword, with or without a lot number behind it.
KeywordTexts ==
  {p \o Render(l, t.y, t.m, t.d) \o s :
     p \in {PrefixDLC, PrefixBestBefore, PrefixConsommer},
     l \in KeywordLayouts, t \in KeywordDates, s \in {<<>>, SuffixLot}}

Texts == DateTexts \cup KeywordTexts \cup SpecialTexts

\* Most lines of an OCR block.
MaxLines == 2

RECURSIVE JoinLines(_)
JoinLines(lines) ==
  IF Len(lines) = 1 THEN lines[1]
  ELSE lines[1] \o <<"\n">> \o JoinLines(Tail(lines))

RECURSIVE LineTuples(_)
\* The sequences of n indexes into OcrLines.
LineTuples(n) ==
  IF n = 0 THEN {<<>>}
  ELSE {Append(t, i) : t \in LineTuples(n - 1), i \in 1..Len(OcrLines)}

Blocks ==
  {JoinLines([k \in 1..Len(t) |-> OcrLines[t[k]]]) :
     t \in UNION {LineTuples(n) : n \in 1..MaxLines}}
    \cup {<<"1", "2", "2", "7", "\r", "\n", "\n", "1", "5", "/", "0", "4", "/", "2", "0", "2", "7", "\n">>}

\* A JavaScript number: NaN, an infinity, or the fraction num/den, den > 0.
NaN == [kind |-> "NaN"]

Infinity(sign) == [kind |-> "Infinity", sign |-> sign]

Fraction(num, den) == [kind |-> "finite", num |-> num, den |-> den]

YearsArguments ==
  { NaN, Infinity(1), Infinity(-1), Fraction(0, 1), Fraction(-3, 1), Fraction(1, 2),
    Fraction(1, 1), Fraction(3, 2), Fraction(5, 2), Fraction(50, 1), Fraction(101, 2),
    Fraction(51, 1) }

Void == [void |-> TRUE]

(***************************************************************************)
(* The program: the exported functions, called one at a time.  A call      *)
(* runs to completion (pc = "returned") and the caller takes the result    *)
(* (Return) before the next call.                                          *)
(***************************************************************************)
Init ==
  /\ expiryDetectionPastYears = 2
  /\ now \in Todays
  /\ pc = "idle"
  /\ op = "none"
  /\ input = <<>>
  /\ result = Void
  /\ trace = <<>>
  /\ call = Void

\* Mutant of IsValidYears: the range check left out.
IsValidYearsFiniteOnly(years) == years.kind = "finite"

\* Number.isFinite(years) && years >= 1 && years <= 50
IsValidYears(years) ==
  /\ years.kind = "finite"
  /\ years.num >= years.den
  /\ years.num <= 50 * years.den

\* Math.floor(years)
Floor(years) == years.num \div years.den

SetExpiryDetectionPastYears ==
  /\ pc = "idle"
  /\ \E years \in YearsArguments :
       /\ expiryDetectionPastYears' =
            IF IsValidYears(years) THEN Floor(years) ELSE expiryDetectionPastYears
       /\ input' = years
  /\ op' = "setExpiryDetectionPastYears"
  /\ result' = Void
  /\ trace' = <<>>
  /\ pc' = "returned"
  /\ UNCHANGED <<now, call>>

GetExpiryDetectionPastYears ==
  /\ pc = "idle"
  /\ op' = "getExpiryDetectionPastYears"
  /\ input' = <<>>
  /\ result' = getExpiryDetectionPastYears
  /\ trace' = <<>>
  /\ pc' = "returned"
  /\ UNCHANGED <<expiryDetectionPastYears, now, call>>

\* Mutant of ParseExpiryDate: a parse that puts the window back to its
\* default.
ParseExpiryDateResettingWindow ==
  /\ pc = "idle"
  /\ \E text \in Texts :
       \E r \in {parseExpiryDate(text)} :
         /\ input' = text
         /\ result' = r.res
         /\ trace' = r.trace
  /\ op' = "parseExpiryDate"
  /\ pc' = "returned"
  /\ expiryDetectionPastYears' = 2
  /\ UNCHANGED <<now, call>>

ParseExpiryDate ==
  /\ pc = "idle"
  /\ \E text \in Texts :
       \E r \in {parseExpiryDate(text)} :
         /\ input' = text
         /\ result' = r.res
         /\ trace' = r.trace
  /\ op' = "parseExpiryDate"
  /\ pc' = "returned"
  /\ UNCHANGED <<expiryDetectionPastYears, now, call>>

\* The trace of the two OCR functions is the result of each line, in line order.
FindDatesInOCRText ==
  /\ pc = "idle"
  /\ \E ocrText \in Blocks :
       \E r \in {findDatesInOCRText(ocrText)} :
         /\ input' = ocrText
         /\ result' = r.res
         /\ trace' = r.trace
  /\ op' = "findDatesInOCRText"
  /\ pc' = "returned"
  /\ UNCHANGED <<expiryDetectionPastYears, now, call>>

GetBestDateFromOCR ==
  /\ pc = "idle"
  /\ \E ocrText \in Blocks :
       \E r \in {getBestDateFromOCR(ocrText)} :
         /\ input' = ocrText
         /\ result' = r.res
         /\ trace' = r.trace
  /\ op' = "getBestDateFromOCR"
  /\ pc' = "returned"
  /\ UNCHANGED <<expiryDetectionPastYears, now, call>>

\* The wall clock moves on between two calls.
ClockAdvance ==
  /\ pc = "idle"
  /\ \E day \in Todays : DateLE(now, day) /\ day # now /\ now' = day
  /\ UNCHANGED <<expiryDetectionPastYears, pc, op, input, result, trace, call>>

\* The caller takes the result.
Return ==
  /\ pc = "returned"
  /\ pc' = "idle"
  /\ op' = "none"
  /\ input' = <<>>
  /\ result' = Void
  /\ trace' = <<>>
  /\ call' = Void
  /\ UNCHANGED <<expiryDetectionPastYears, now>>

Next ==
  \/ SetExpiryDetectionPastYears
  \/ GetExpiryDetectionPastYears
  \/ ParseExpiryDate
  \/ FindDatesInOCRText
  \/ GetBestDateFromOCR
  \/ ClockAdvance
  \/ Return

Spec == Init /\ [][Next]_vars

(***************************************************************************)
(* The same parse, one matcher attempt at a time.  parseExpiryDate is a    *)
(* synchronous function: it neither awaits nor yields, so the JavaScript   *)
(* event loop runs no other call (SetterMayRun) before it has returned.    *)
(* Each step reads expiryDetectionPastYears when it runs, as               *)
(* isReasonableDate does.                                                  *)
(***************************************************************************)
StepTexts == SpecialTexts \cup {Render(l, 2027, 3, 15) : l \in Layouts}

\* Mutant of SetterMayRun: a parse that yields between two matcher attempts.
SetterMayRunAnytime == TRUE

\* No parse is on the stack: another caller's function may run.
SetterMayRun == pc = "idle"

BeginParse ==
  /\ pc = "idle"
  /\ \E text \in StepTexts :
       /\ input' = text
       /\ IF IsBlank(text)
            THEN /\ result' = ParsedDate(NullDate, "low", "empty", NoRead)
                 /\ pc' = "returned"
                 /\ call' = Void
            ELSE /\ result' = Void
                 /\ pc' = "running"
                 /\ call' = [stage |-> "keyword", i |-> 1, normalized |-> normalizeText(text),
                             cleanedText |-> <<>>, window |-> expiryDetectionPastYears]
  /\ op' = "parseExpiryDate"
  /\ trace' = <<>>
  /\ UNCHANGED <<expiryDetectionPastYears, now>>

StepKeyword ==
  /\ pc = "running"
  /\ call.stage = "keyword"
  /\ \E keywordResult \in {tryKeywordProximity(input)} :
         /\ trace' = keywordResult.trace
         /\ IF HasDate(keywordResult.res)
              THEN /\ result' = keywordResult.res
                   /\ pc' = "returned"
                   /\ call' = call
              ELSE /\ result' = result
                   /\ pc' = pc
                   /\ call' = [call EXCEPT !.stage = "cleaned",
                                           !.cleanedText = removeKeywords(call.normalized)]
  /\ UNCHANGED <<expiryDetectionPastYears, now, op, input>>

StepParser ==
  /\ pc = "running"
  /\ call.stage \in {"cleaned", "normalized"}
  /\ \E r \in {Apply(WholeTextParsers[call.i],
                     IF call.stage = "cleaned" THEN call.cleanedText ELSE call.normalized)} :
         /\ trace' = Append(trace, Attempt(call.stage, WholeTextParsers[call.i], r))
         /\ IF HasDate(r)
              THEN result' = r /\ pc' = "returned" /\ call' = call
            ELSE IF call.i < Len(WholeTextParsers)
              THEN result' = result /\ pc' = pc /\ call' = [call EXCEPT !.i = call.i + 1]
            ELSE IF call.stage = "cleaned"
              THEN /\ result' = result
                   /\ pc' = pc
                   /\ call' = [call EXCEPT !.stage = "normalized", !.i = 1]
            ELSE /\ result' = ParsedDate(NullDate, "low", "unrecognized", NoRead)
                 /\ pc' = "returned"
                 /\ call' = call
  /\ UNCHANGED <<expiryDetectionPastYears, now, op, input>>

\* setExpiryDetectionPastYears called by another caller
SetBetweenCalls ==
  /\ SetterMayRun
  /\ \E years \in YearsArguments :
       /\ IsValidYears(years)
       /\ expiryDetectionPastYears' = Floor(years)
  /\ UNCHANGED <<now, pc, op, input, result, trace, call>>

NextSteps == BeginParse \/ StepKeyword \/ StepParser \/ SetBetweenCalls \/ Return

SpecSteps == Init /\ [][NextSteps]_vars


(***************************************************************************)
(* The functions of the module called one at a time on the texts           *)
(* parseExpiryDate hands them: expandYear on the numbers a matcher reads,  *)
(* normalizeText on raw text, each matcher on normalized text.             *)
(***************************************************************************)
\* Largest number handed to expandYear, besides the four-digit years.
MaxYearValue == 130

YearValues == 0..MaxYearValue \cup {1999, 2025, 2050, 9999}

\* The days on which the functions are run: the days of Todays and a day
\* whose tenth anniversary is the eve of the last day of its month.
FunctionDays == Todays \cup {Ymd(2026, 11, 29)}

\* The days written in the texts handed to the matchers: those of
\* TextDates, the days around the ends of the window of 29 November 2026,
\* and a day in each month TextDates has none in.
MatcherDates ==
  TextDates \cup { Ymd(2023, 11, 29), Ymd(2024, 11, 29), Ymd(2036, 11, 29),
                   Ymd(2036, 11, 30), Ymd(2025, 3, 15), Ymd(1960, 3, 15),
                   Ymd(2025, 4, 3), Ymd(2027, 7, 7), Ymd(2027, 1, 15), Ymd(2027, 8, 15),
                   Ymd(2027, 9, 15), Ymd(2027, 10, 15) }

\* Fragments besides those: two candidates of one layout, the first of them
\* no calendar day; a day whose number is that of its month; a lot number; a
\* month and a year written without a separator; texts of 5, 7 and 9
\* digits; 8 digits between letters.
FragmentTexts ==
  { <<"2", "0", "2", "5", "-", "1", "3", "-", "4", "0", " ",
      "2", "0", "2", "7", "-", "0", "3", "-", "1", "5">>,
    <<"3", "2", "/", "0", "1", "/", "2", "0", "2", "7", " ",
      "1", "5", "/", "0", "3", "/", "2", "0", "2", "7">>,
    <<"0", "5", "/", "0", "5", "/", "2", "0", "2", "6">>,
    <<"0", "5", "-", "0", "5", "-", "2", "6">>,
    <<"l", "o", "t", "2", "5">>,
    <<"l", "o", "t", " ", "2", "5">>,
    <<"L", "O", "T", " ", "2", "7", "0", "3">>,
    <<"m", "a", "r", "s", "2", "0", "2", "7">>,
    <<"M", "A", "R", "2", "7">>,
    <<"0", "3", "2", "0", "2", "7">>,
    <<"1", "/", "0", "3", "/", "2", "0", "2", "7">>,
    <<"1", "5", "3", "2", "7">>,
    <<"1", "5", "0", "3", "2", "0", "2", "7", "1">>,
    <<"L", "O", "T", " ", "1", "5", "-", "0", "3", "-", "2", "0", "2", "7", " ", "A">> }

\* What normalizeText makes of a date in every layout, and the fragments.
MatcherTexts ==
  {normalizeText(Render(l, t.y, t.m, t.d)) : l \in Layouts, t \in MatcherDates}
    \cup {normalizeText(text) : text \in FragmentTexts}

\* Raw texts handed to normalizeText: the texts parseExpiryDate is called
\* on, the month names and the keywords of the registries, and texts with
\* capitals, accents, combining marks, sharp s and runs of whitespace.
RawTexts ==
  Texts
    \cup {ALL_MONTHS[i][1] : i \in 1..Len(ALL_MONTHS)}
    \cup {ALL_KEYWORDS[i] : i \in 1..Len(ALL_KEYWORDS)}
    \cup { <<" ", " ", "S", "t", "r", "a", "ß", "e", "\t", "\t", "D", "É", "C", ".", " ">>,
           <<"a", " ", "U+0300", " ", "b">>,
           <<"e", "U+0301", "U+0301", " ", "\n", "U+0308">>,
           <<"U+0308", "Ä", "\r", "\n", "Û", "ñ", "ç", " ", "ß", "ß">>,
           <<"P", "A", "U+017A", "D", "Z", "I", "E", "R", "N", "I", "K", "\t", "2", "7">> }

InitFunctions ==
  /\ expiryDetectionPastYears = 2
  /\ now \in FunctionDays
  /\ pc = "idle"
  /\ op = "none"
  /\ input = <<>>
  /\ result = Void
  /\ trace = <<>>
  /\ call = Void

ExpandYear ==
  /\ pc = "idle"
  /\ \E year \in YearValues :
       /\ input' = year
       /\ result' = expandYear(year)
  /\ op' = "expandYear"
  /\ trace' = <<>>
  /\ pc' = "returned"
  /\ UNCHANGED <<expiryDetectionPastYears, now, call>>

NormalizeText ==
  /\ pc = "idle"
  /\ \E text \in RawTexts :
       /\ input' = text
       /\ result' = normalizeText(text)
  /\ op' = "normalizeText"
  /\ trace' = <<>>
  /\ pc' = "returned"
  /\ UNCHANGED <<expiryDetectionPastYears, now, call>>

\* The tokens handed to parseMonth: runs of three letters or more taken
\* from the text by a matcher. The names of the registry as written and as
\* normalized, each name with a letter after it, and words that are no
\* month.
MonthTokens ==
  {ALL_MONTHS[i][1] : i \in 1..Len(ALL_MONTHS)}
    \cup {NormMonthNames[i] : i \in 1..Len(ALL_MONTHS)}
    \cup {NormMonthNames[i] \o <<"s">> : i \in 1..Len(ALL_MONTHS)}
    \cup { <<"l", "o", "t">>, <<"a", "r", "m">>, <<"j", "a", "v", "i", "e", "r">>,
           <<"e", "m", "b", "e", "r">>, <<"x", "m", "a", "r", "s">> }

ParseMonth ==
  /\ pc = "idle"
  /\ \E text \in MonthTokens :
       /\ input' = text
       /\ result' = parseMonth(text)
  /\ op' = "parseMonth"
  /\ trace' = <<>>
  /\ pc' = "returned"
  /\ UNCHANGED <<expiryDetectionPastYears, now, call>>

\* One matcher called on one text; op is the name of the matcher.
TryMatcher ==
  /\ pc = "idle"
  /\ \E parser \in {WholeTextParsers[i] : i \in 1..Len(WholeTextParsers)} :
       \E text \in MatcherTexts :
         \E r \in {Apply(parser, text)} :
           /\ op' = parser
           /\ input' = text
           /\ result' = r
  /\ trace' = <<>>
  /\ pc' = "returned"
  /\ UNCHANGED <<expiryDetectionPastYears, now, call>>

NextFunctions ==
  \/ ExpandYear
  \/ NormalizeText
  \/ ParseMonth
  \/ TryMatcher
  \/ SetExpiryDetectionPastYears
  \/ Return

SpecFunctions == InitFunctions /\ [][NextFunctions]_vars

(***************************************************************************)
(* Properties                                                              *)
(***************************************************************************)
\* 29 February of a year that has none
NoSuchDay(t) == t.m = 2 /\ t.d = 29 /\ ~IsLeap(t.y)

\* day - n years; since 29 February may land in a year that has none, the
\* earliest day this can mean
YearsBefore(day, n) ==
  IF NoSuchDay(Ymd(day.y - n, day.m, day.d)) THEN Ymd(day.y - n, 2, 28)
  ELSE Ymd(day.y - n, day.m, day.d)

\* day + n years, the latest day this can mean
YearsAfter(day, n) ==
  IF NoSuchDay(Ymd(day.y + n, day.m, day.d)) THEN Ymd(day.y + n, 3, 1)
  ELSE Ymd(day.y + n, day.m, day.d)

\* today - pastYearsWindow years <= date <= today + 10 years
InValidityWindow(date) ==
  /\ DateLE(YearsBefore(now, expiryDetectionPastYears), date)
  /\ DateLE(date, YearsAfter(now, 10))

Parsed == pc = "returned" /\ op = "parseExpiryDate"

\* C1: every non-null date returned by parseExpiryDate lies between today
\* minus pastYearsWindow years and today plus 10 years, whichever matcher
\* produced it.
C1_ReturnedDateInWindow ==
  (Parsed /\ result.date # NullDate) => InValidityWindow(result.date)

DayBearingFormats ==
  {"DD/MM/YYYY", "YYYY-MM-DD", "MM/DD/YYYY (US)", "DD MMM YYYY", "MMM DD YYYY",
   "DDMMYYYY", "YYYYMMDD", "DDMMYY"}

\* (y, m, d) names a day of the calendar
IsCalendarDay(t) ==
  /\ t.m \in 1..12
  /\ t.d >= 1
  /\ t.d <= (IF t.m = 2 THEN (IF (t.y % 4 = 0 /\ t.y % 100 # 0) \/ t.y % 400 = 0 THEN 29 ELSE 28)
             ELSE IF t.m \in {4, 6, 9, 11} THEN 30 ELSE 31)

C3_Feb31YieldsNoDate ==
  (Parsed /\ input = Render("DD/MM/YYYY", 2025, 2, 31)) => result.date = NullDate

\* C4: the keyword resolver runs before any whole-text matcher, and when it
\* yields a date that result is what parseExpiryDate returns.
C4_KeywordResultWins ==
  Parsed =>
    /\ \A i, j \in DOMAIN trace :
         (trace[i].stage # "keyword" /\ trace[j].stage = "keyword") => j < i
    /\ (~IsBlank(input) /\ HasDate(tryKeywordProximity(input).res)) =>
         /\ result = tryKeywordProximity(input).res
         /\ \A i \in DOMAIN trace : trace[i].stage = "keyword"

\* "15/04/2027 exp 03/2028": the keyword-anchored result is medium and was
\* returned although the whole text holds a high-confidence date.
C4_Witness ==
  /\ Parsed
  /\ result.detectedKeyword = <<"e", "x", "p">>
  /\ result.confidence = "medium"
  /\ FirstSuccess(WholeTextParsers, removeKeywords(input), "cleaned", 1).res.confidence = "high"

InvalidYearsArguments ==
  { NaN, Infinity(1), Infinity(-1), Fraction(0, 1), Fraction(-3, 1), Fraction(1, 2),
    Fraction(101, 2), Fraction(51, 1) }

\* C6: pastYearsWindow is 2 before any call and an integer in [1, 50] after
\* any sequence of calls, getPastYearsWindow returns it, and a call with an
\* invalid argument leaves it unchanged.
C6_WindowStaysValid ==
  /\ expiryDetectionPastYears = 2
  /\ [](expiryDetectionPastYears \in 1..50)
  /\ []((pc = "returned" /\ op = "getExpiryDetectionPastYears") =>
          (result \in 1..50 /\ result = expiryDetectionPastYears))
  /\ [][(op' = "setExpiryDetectionPastYears" /\ input' \in InvalidYearsArguments)
          => expiryDetectionPastYears' = expiryDetectionPastYears]_vars

\* NaN was passed after the window had been set to 50, and it is still 50.
C6_Witness ==
  /\ pc = "returned"
  /\ op = "setExpiryDetectionPastYears"
  /\ input = NaN
  /\ expiryDetectionPastYears = 50

\* The dated results of the lines, high confidence first, then medium, then
\* low, each group in line order.
ByConfidence(perLine) ==
  LET dated == SelectSeq(perLine, LAMBDA r : r.date # NullDate)
  IN  SelectSeq(dated, LAMBDA r : r.confidence = "high")
        \o SelectSeq(dated, LAMBDA r : r.confidence = "medium")
        \o SelectSeq(dated, LAMBDA r : r.confidence = "low")

\* C7: getBestDateFromOCR returns the first result of the sorted list that
\* carries a keyword, else the first result, else the no_date_found value.
C7_BestPrefersKeyword ==
  (pc = "returned" /\ op = "getBestDateFromOCR") =>
    LET list == ByConfidence(trace)
        withKeyword == {i \in DOMAIN list : list[i].detectedKeyword # <<>>}
    IN  IF withKeyword # {}
          THEN result = list[CHOOSE i \in withKeyword : \A j \in withKeyword : i <= j]
        ELSE IF list # <<>> THEN result = list[1]
        ELSE result = [date |-> NullDate, confidence |-> "low", format |-> "no_date_found",
                       detectedKeyword |-> <<>>, read |-> NoRead]

\* A medium result with a keyword was returned although the list starts
\* with a high result without keyword.
C7_Witness ==
  /\ pc = "returned"
  /\ op = "getBestDateFromOCR"
  /\ result.confidence = "medium"
  /\ result.detectedKeyword # <<>>
  /\ ByConfidence(trace)[1].confidence = "high"
  /\ ByConfidence(trace)[1].detectedKeyword = <<>>

\* The number of lines of a block: one more than its runs of line breaks.
LineCount(text) ==
  1 + Cardinality({i \in 1..Len(text) :
                     text[i] \in {"\n", "\r"} /\ At(text, i - 1) \notin {"\n", "\r"}})

\* C8: findDatesInOCRText returns the dated per-line results ordered by
\* confidence, results of equal confidence in line order.
C8_SortedByConfidenceStable ==
  (pc = "returned" /\ op = "findDatesInOCRText") =>
    /\ Len(trace) = LineCount(input)
    /\ result = ByConfidence(trace)

\* A low result on line 1 and a high result on line 2 came back high first.
C8_Witness ==
  /\ pc = "returned"
  /\ op = "findDatesInOCRText"
  /\ Len(trace) = 2
  /\ trace[1].confidence = "low"
  /\ trace[2].confidence = "high"
  /\ result = <<trace[2], trace[1]>>

\* C9: on non-blank text parseExpiryDate returns a ParsedDate; it is the
\* unrecognized value when no attempt produced a date, and a null date
\* comes only with format "empty" or "unrecognized".
C9_AlwaysAParsedDate ==
  Parsed =>
    /\ DOMAIN result = {"date", "confidence", "format", "detectedKeyword", "read"}
    /\ result.confidence \in {"high", "medium", "low"}
    /\ (result.date = NullDate) => result.format \in {"empty", "unrecognized"}
    /\ (~IsBlank(input) /\ \A i \in DOMAIN trace : ~trace[i].hit) =>
         result = [date |-> NullDate, confidence |-> "low", format |-> "unrecognized",
                   detectedKeyword |-> <<>>, read |-> NoRead]

\* "ABC123": all matchers failed on the keyword-stripped and on the
\* normalized text, and the result is the unrecognized value.
C9_Witness ==
  /\ Parsed
  /\ input = <<"A", "B", "C", "1", "2", "3">>
  /\ Len(trace) = 2 * Len(WholeTextParsers)
  /\ \A i \in DOMAIN trace : ~trace[i].hit
  /\ result.format = "unrecognized"

\* C10: on empty or whitespace-only text parseExpiryDate returns the empty
\* value and runs no resolver and no matcher.
C10_BlankIsEmpty ==
  (Parsed /\ \A i \in DOMAIN input : input[i] \in {" ", "\t", "\n", "\r"}) =>
    /\ result = [date |-> NullDate, confidence |-> "low", format |-> "empty",
                 detectedKeyword |-> <<>>, read |-> NoRead]
    /\ trace = <<>>

C10_Witness ==
  /\ Parsed
  /\ input = <<" ", "\t", " ">>
  /\ result.format = "empty"
  /\ trace = <<>>

MatcherNames == {WholeTextParsers[i] : i \in 1..Len(WholeTextParsers)}

\* A matcher has been called on a text and has returned a date.
Matched == pc = "returned" /\ op \in MatcherNames /\ result # Null

\* The layouts each matcher is written for.
OwnLayouts(parser) ==
  CASE parser = "tryDMY" -> {"DD/MM/YYYY", "DD.MM.YY"}
    [] parser = "tryISO" -> {"YYYY-MM-DD"}
    [] parser = "tryMDY" -> {"MM/DD/YYYY"}
    [] parser = "tryDayMonthYear" -> {"D MMM YYYY"}
    [] parser = "tryMonthDayYear" -> {"MMM D, YYYY"}
    [] parser = "tryMonthYear" -> {"MMM YYYY", "MM/YYYY"}
    [] parser = "tryNumeric" -> {"DDMMYYYY", "YYYYMMDD", "DDMMYY", "MMYY"}

TwoDigitYearLayouts == {"DD.MM.YY", "DDMMYY", "MMYY"}

\* C11: expandYear returns a value of 100 or more unchanged, 1900 + value
\* for 51..99 and 2000 + value for 0..50; a matcher that returns a date for
\* a text of its layout with a two-digit year returns it in the year so expanded
\* ("15/03/25" in 2025, never "15/03/60" in 2060).
C11_TwoDigitYearExpansion ==
  /\ (pc = "returned" /\ op = "expandYear") =>
        result = (IF input >= 100 THEN input
                  ELSE IF input \in 51..99 THEN 1900 + input
                  ELSE 2000 + input)
  /\ Matched =>
        \A l \in TwoDigitYearLayouts \cap OwnLayouts(op), t \in MatcherDates :
          input = normalizeText(Render(l, t.y, t.m, t.d)) =>
            result.date.y = (IF (t.y % 100) > 50 THEN 1900 ELSE 2000) + (t.y % 100)

\* With the window at 50 on 3 November 2026 "03.11.76" is the day in 1976.
C11_Witness ==
  /\ pc = "returned"
  /\ op = "tryDMY"
  /\ input = Render("DD.MM.YY", 1976, 11, 3)
  /\ result # Null
  /\ result.date = Ymd(1976, 11, 3)

\* The day after a day of the calendar.
NextDay(t) ==
  IF t.d < DaysInMonth(t.y, t.m) THEN Ymd(t.y, t.m, t.d + 1)
  ELSE IF t.m < 12 THEN Ymd(t.y, t.m + 1, 1)
  ELSE Ymd(t.y + 1, 1, 1)

DayLayouts ==
  {"DD/MM/YYYY", "DD.MM.YY", "YYYY-MM-DD", "MM/DD/YYYY", "D MMM YYYY", "MMM D, YYYY",
   "DDMMYYYY", "YYYYMMDD", "DDMMYY"}

\* C12: with pastYearsWindow = 2, whatever the current date, no matcher
\* returns the day 3 years before today or the day 10 years and 1 day after
\* today, and every matcher returns the day 10 years after today when it is
\* written in a layout of that matcher that carries the day.
C12_WindowBoundaries ==
  (pc = "returned" /\ op \in MatcherNames /\ expiryDetectionPastYears = 2) =>
    /\ result # Null =>
          result.date \notin {YearsBefore(now, 3), NextDay(YearsAfter(now, 10))}
    /\ \A l \in OwnLayouts(op) \cap DayLayouts :
          LET tenYears == YearsAfter(now, 10)
          IN  input = normalizeText(Render(l, tenYears.y, tenYears.m, tenYears.d)) =>
                result # Null /\ result.date = tenYears

\* date lies in the validity window however today - n years is read when
\* today is a 29 February: from the latest reading of the lower end to the
\* earliest reading of the upper end.
SurelyInWindow(date) ==
  /\ DateLE(YearsAfter(now, -expiryDetectionPastYears), date)
  /\ DateLE(date, YearsBefore(now, -10))

\* tryDMY has returned from the text DD/MM/YYYY of the day t.
TriedDMYOn(t) ==
  pc = "returned" /\ op = "tryDMY" /\ input = Render("DD/MM/YYYY", t.y, t.m, t.d)

\* tryDMY has returned exactly the day t with confidence high.
AcceptedDMY(t) ==
  /\ result # Null
  /\ result.date = t
  /\ result.confidence = "high"
  /\ result.format = "DD/MM/YYYY"

\* C13 as stated: for every (y, m, d) that round-trips through calendar-date
\* construction, tryDMY accepts the text DD/MM/YYYY of that day and returns
\* confidence high with exactly that day.
C13_EveryCalendarDayAccepted ==
  \A t \in MatcherDates : (IsCalendarDay(t) /\ TriedDMYOn(t)) => AcceptedDMY(t)

\* C13, amended: for every (y, m, d) that round-trips through calendar-date
\* construction and lies in the validity window, tryDMY accepts the text
\* DD/MM/YYYY of that day and returns confidence high with exactly that day.
C13_CalendarDayInWindowAccepted ==
  \A t \in MatcherDates :
    (IsCalendarDay(t) /\ SurelyInWindow(t) /\ TriedDMYOn(t)) => AcceptedDMY(t)

\* "29/02/2028" has been accepted as 29 February 2028.
C13_Witness ==
  /\ TriedDMYOn(Ymd(2028, 2, 29))
  /\ AcceptedDMY(Ymd(2028, 2, 29))

\* The names the registry has for month m.
NamesOf(m) == {ALL_MONTHS[i][1] : i \in {j \in 1..Len(ALL_MONTHS) : ALL_MONTHS[j][2] = m}}

\* The renderings of a day in the layout a format label stands for, as
\* normalizeText hands them to the matchers; a layout with a month name has
\* one rendering for each name of the month.
Renderings(format, t) ==
  CASE format = "DD/MM/YYYY" -> {Render("DD/MM/YYYY", t.y, t.m, t.d)}
    [] format = "YYYY-MM-DD" -> {Render("YYYY-MM-DD", t.y, t.m, t.d)}
    [] format = "MM/DD/YYYY (US)" -> {Render("MM/DD/YYYY", t.y, t.m, t.d)}
    [] format = "DD MMM YYYY" ->
         {normalizeText(Pad2(t.d) \o <<" ">> \o name \o <<" ">> \o Pad4(t.y)) :
            name \in NamesOf(t.m)}
    [] format = "MMM DD YYYY" ->
         {normalizeText(name \o <<" ">> \o Pad2(t.d) \o <<" ">> \o Pad4(t.y)) :
            name \in NamesOf(t.m)}
    [] format = "MMM YYYY (fin de mois)" ->
         {normalizeText(name \o <<" ">> \o Pad4(t.y)) : name \in NamesOf(t.m)}
    [] format = "DDMMYYYY" -> {Render("DDMMYYYY", t.y, t.m, t.d)}
    [] format = "YYYYMMDD" -> {Render("YYYYMMDD", t.y, t.m, t.d)}
    [] format = "DDMMYY" -> {Render("DDMMYY", t.y, t.m, t.d)}
    [] format = "MMYY (fin de mois)" -> {Render("MMYY", t.y, t.m, t.d)}

\* C14: for every matcher and every date it returns, the same matcher run
\* on the rendering of that date in the matcher's own layout returns the
\* identical date.
C14_LayoutRoundTrip ==
  Matched =>
    \A text \in Renderings(result.format, result.date) :
      \E again \in {Apply(op, text)} : again # Null /\ again.date = result.date

\* tryMonthYear returned the last day of November from "11/2036"; the
\* renderings of that day are "novembre 2036", "nov 2036" and so on.
C14_Witness ==
  /\ Matched
  /\ op = "tryMonthYear"
  /\ input = Render("MM/YYYY", 2036, 11, 3)
  /\ result.date = Ymd(2036, 11, 30)
  /\ Cardinality(Renderings(result.format, result.date)) > 3

KeywordOf(prefix) ==
  CASE prefix = PrefixDLC -> <<"d", "l", "c">>
    [] prefix = PrefixBestBefore -> <<"b", "e", "s", "t", " ", "b", "e", "f", "o", "r", "e">>
    [] prefix = PrefixConsommer ->
         <<"a", " ", "c", "o", "n", "s", "o", "m", "m", "e", "r", " ", "a", "v", "a", "n", "t">>

\* C16: for a text "<keyword> D MonthName YYYY lot 2504" whose date is a
\* day of the calendar in the validity window, parseExpiryDate returns that
\* date with detectedKeyword equal to the keyword; the digits of the lot
\* are no part of the date.
C16_KeywordDateBeforeLot ==
  Parsed =>
    \A prefix \in {PrefixDLC, PrefixBestBefore, PrefixConsommer}, t \in KeywordDates :
      ( /\ IsCalendarDay(t)
        /\ SurelyInWindow(t)
        /\ input = prefix \o Render("D MMM YYYY", t.y, t.m, t.d) \o SuffixLot ) =>
        /\ result.date = t
        /\ result.detectedKeyword = KeywordOf(prefix)
        /\ result.format = "DD MMM YYYY"

\* "DLC: 15 MARS 2025 lot 2504" has come back as 15 March 2025, keyword dlc.
C16_Witness ==
  /\ Parsed
  /\ input = PrefixDLC \o Render("D MMM YYYY", 2025, 3, 15) \o SuffixLot
  /\ result.date = Ymd(2025, 3, 15)
  /\ result.detectedKeyword = <<"d", "l", "c">>

\* C17: normalizeText(normalizeText(s)) = normalizeText(s) for every text
\* s; the output has no capital, no accented letter, no combining mark and
\* no sharp s, no whitespace but single spaces, and none at either end.
C17_NormalizeIdempotent ==
  (pc = "returned" /\ op = "normalizeText") =>
    /\ normalizeText(result) = result
    /\ \A i \in 1..Len(result) :
          /\ result[i] \notin UpperSet \cup CombiningMarks \cup {"ß", "\t", "\n", "\r"}
          /\ result[i] \notin {AccentTable[k][1] : k \in AccentIndex}
          /\ (result[i] = " ") => (i > 1 /\ i < Len(result) /\ result[i + 1] # " ")

\* "  Straße<tab><tab>DÉC. " has become "strasse dec.".
C17_Witness ==
  /\ pc = "returned"
  /\ op = "normalizeText"
  /\ input = <<" ", " ", "S", "t", "r", "a", "ß", "e", "\t", "\t", "D", "É", "C", ".", " ">>
  /\ result = <<"s", "t", "r", "a", "s", "s", "e", " ", "d", "e", "c", ".">>

ParsingFunctions == {"parseExpiryDate", "findDatesInOCRText", "getBestDateFromOCR"}

C19_AnchorsOnLeftmostKeyword ==
  (Parsed /\ result.detectedKeyword # <<>>) =>
    LET normalized == normalizeText(input)
        anchor == IndexOf(normalized, normalizeText(result.detectedKeyword))
    IN  \A j \in 1..Len(ALL_KEYWORDS) :
          Occurrences(normalized, NormKeywords[j]) # {} =>
            anchor <= IndexOf(normalized, NormKeywords[j])

\* Day-Month-Year, ISO, Day-MonthName-Year, MonthName-Day-Year,
\* MonthName-Year, compact numeric
AnchoredOrder ==
  <<"tryDMY", "tryISO", "tryDayMonthYear", "tryMonthDayYear", "tryMonthYear", "tryNumeric">>

\* C20: a result that carries a keyword is the result of the first matcher,
\* in the order of AnchoredOrder, that succeeds on what follows the keyword
\* and its run of separators; the attempts made on that remainder were made
\* in that order, the US matcher was tried on no remainder, and the result
\* is not in the US format.
C20_AnchoredMatchersInOrder ==
  (Parsed /\ result.detectedKeyword # <<>>) =>
    LET normalized == normalizeText(input)
        keyword == normalizeText(result.detectedKeyword)
        remainder == AfterKeyword(normalized, IndexOf(normalized, keyword), keyword)
        hits == {k \in 1..Len(AnchoredOrder) : HasDate(Apply(AnchoredOrder[k], remainder))}
        first == Min(hits)
    IN  /\ hits # {}
        /\ [result EXCEPT !.detectedKeyword = <<>>] = Apply(AnchoredOrder[first], remainder)
        /\ result.format # "MM/DD/YYYY (US)"
        /\ \A i \in 1..Len(trace) : trace[i].stage = "keyword" /\ trace[i].parser # "tryMDY"
        /\ Len(trace) >= first
        /\ \A k \in 1..first :
              /\ trace[Len(trace) - first + k].parser = AnchoredOrder[k]
              /\ trace[Len(trace) - first + k].hit = (k = first)

\* "15/04/2027 exp 03/2028": the date before the keyword was left alone
\* and the fifth matcher read the end of March 2028 behind it.
C20_Witness ==
  /\ Parsed
  /\ input = <<"1", "5", "/", "0", "4", "/", "2", "0", "2", "7", " ", "e", "x", "p", " ",
               "0", "3", "/", "2", "0", "2", "8">>
  /\ result.date = Ymd(2028, 3, 31)
  /\ result.detectedKeyword = <<"e", "x", "p">>
  /\ Len(trace) = 5

\* Day-Month-Year, ISO, Day-MonthName-Year, MonthName-Day-Year, compact
\* numeric, MonthName-Year, US Month-Day-Year
WholeTextOrder ==
  <<"tryDMY", "tryISO", "tryDayMonthYear", "tryMonthDayYear", "tryNumeric", "tryMonthYear",
    "tryMDY">>

\* The attempts of a trace made at one stage, in the order they were made.
AttemptsAt(stage) == SelectSeq(trace, LAMBDA a : a.stage = stage)

\* C21: when the keyword resolver yields nothing, parseExpiryDate returns
\* the first success of the seven matchers, in the order of WholeTextOrder,
\* on the keyword-stripped text, and only if all seven fail there the first
\* success of the same seven in the same order on the normalized text; the
\* attempts are made in that sequence.
C21_WholeTextSequence ==
  (Parsed /\ ~IsBlank(input) /\ result.detectedKeyword = <<>>) =>
    LET normalized == normalizeText(input)
        cleanedText == removeKeywords(normalized)
        onCleaned == {k \in 1..Len(WholeTextOrder) :
                        HasDate(Apply(WholeTextOrder[k], cleanedText))}
        onNormalized == {k \in 1..Len(WholeTextOrder) :
                           HasDate(Apply(WholeTextOrder[k], normalized))}
        cleaned == AttemptsAt("cleaned")
        again == AttemptsAt("normalized")
    IN  /\ result = IF onCleaned # {}
                      THEN Apply(WholeTextOrder[Min(onCleaned)], cleanedText)
                    ELSE IF onNormalized # {}
                      THEN Apply(WholeTextOrder[Min(onNormalized)], normalized)
                    ELSE ParsedDate(NullDate, "low", "unrecognized", NoRead)
        /\ trace = AttemptsAt("keyword") \o cleaned \o again
        /\ \A i \in 1..Len(cleaned) :
              cleaned[i].parser = WholeTextOrder[i] /\ (cleaned[i].hit => i = Len(cleaned))
        /\ \A i \in 1..Len(again) :
              again[i].parser = WholeTextOrder[i] /\ (again[i].hit => i = Len(again))
        /\ again # <<>> =>
              Len(cleaned) = Len(WholeTextOrder) /\ ~cleaned[Len(cleaned)].hit

\* "15 febbraio 2027": the keyword bb inside the month name gave nothing,
\* stripping it left nothing to read, and the third matcher read the
\* normalized text.
C21_Witness ==
  /\ Parsed
  /\ input = <<"1", "5", " ", "f", "e", "b", "b", "r", "a", "i", "o", " ", "2", "0", "2", "7">>
  /\ result.date = Ymd(2027, 2, 15)
  /\ Len(AttemptsAt("cleaned")) = Len(WholeTextOrder)
  /\ Len(AttemptsAt("normalized")) = 3

\* A matcher has been called on a text and has returned, with or without a
\* date.
MatcherReturned == pc = "returned" /\ op \in MatcherNames

\* The matchers that look for their layout inside the text; tryNumeric
\* reads the digits of the whole text instead.
ScanningMatchers == MatcherNames \ {"tryNumeric"}

\* The text from its i-th character on.
Suffix(text, i) == SubSeq(text, i, Len(text))

\* The places of a text where a word starts.
WordStarts(text) == {i \in 1..Len(text) : text[i] # " " /\ (i = 1 \/ text[i - 1] = " ")}

\* C22: a matcher returns at most one ParsedDate, and when the fragment
\* holds, from the start of one of its words on, a candidate of the layout
\* that passes the range, round-trip and window checks, the matcher returns
\* a date, even if a candidate further left fails them.
C22_PassingCandidateReturned ==
  (MatcherReturned /\ op \in ScanningMatchers) =>
    /\ result = Null \/ DOMAIN result = DOMAIN ParsedDate(NullDate, "low", "empty", NoRead)
    /\ (\E i \in WordStarts(input) : HasDate(Apply(op, Suffix(input, i)))) => HasDate(result)

\* The three-number layouts written with the day and the month of t; in
\* them a day equal to the month reads the same in both orders.
SameDayAndMonthTexts ==
  {normalizeText(Render(l, t.y, t.m, t.d)) :
     l \in {"DD/MM/YYYY", "MM/DD/YYYY"}, t \in {u \in MatcherDates : u.d = u.m}}
    \cup { <<"0", "5", "/", "0", "5", "/", "2", "0", "2", "6">>,
           <<"0", "5", "-", "0", "5", "-", "2", "6">> }

\* C23: the US Month-Day-Year matcher returns a result only with
\* confidence medium and only when the month it read differs from the day
\* it read; a text whose day equals its month, such as 05/05/2026, gets no
\* result from it.
C23_USOnlyWhenMonthDiffersFromDay ==
  (MatcherReturned /\ op = "tryMDY") =>
    /\ result # Null =>
          /\ result.confidence = "medium"
          /\ result.read.m # result.read.d
          /\ result.date.m # result.date.d
    /\ input \in SameDayAndMonthTexts => result = Null

\* "03/15/2027" read as 15 March 2027 by the US matcher.
C23_Witness ==
  /\ Matched
  /\ op = "tryMDY"
  /\ input = <<"0", "3", "/", "1", "5", "/", "2", "0", "2", "7">>
  /\ result.date = Ymd(2027, 3, 15)
  /\ result.confidence = "medium"

\* C24: a compact numeric result has confidence high when it was read from
\* 8 digits (DDMMYYYY or YYYYMMDD) or from 6 digits (DDMMYY), and
\* confidence low when it was read from 4 digits (MMYY).
C24_NumericConfidence ==
  (Matched /\ op = "tryNumeric") =>
    LET digits == Len(DigitsOf(input))
    IN  /\ digits \in {8, 6} => result.confidence = "high"
        /\ digits = 4 => result.confidence = "low"

\* space, '/', '-' or '.'
YearSeparators == {" ", "/", "-", "."}

\* The text holds a letter or a digit, then one separator or more, then a
\* digit.
HasSeparatedYear(text) ==
  \E i \in 1..Len(text) :
    /\ text[i] \in LetterClass \cup Digits
    /\ RunLen(text, i + 1, YearSeparators) >= 1
    /\ At(text, i + 1 + RunLen(text, i + 1, YearSeparators)) \in Digits

\* Letters and digits written together, and a word that is no month name
\* before a number.
LotTexts ==
  { <<"l", "o", "t", "2", "5">>,
    <<"l", "o", "t", " ", "2", "5">>,
    <<"l", "o", "t", " ", "2", "7", "0", "3">>,
    <<"m", "a", "r", "s", "2", "0", "2", "7">>,
    <<"m", "a", "r", "2", "7">>,
    <<"0", "3", "2", "0", "2", "7">> }

\* C25: the MonthName-Year matcher returns a date only from a text in
\* which a separator (space, '/', '-' or '.') stands between the month and
\* the year; "lot25" and other letters and digits written together get no
\* result, and neither does "lot 25", whose word is no month name.
C25_SeparatorRequired ==
  (MatcherReturned /\ op = "tryMonthYear") =>
    /\ result # Null => HasSeparatedYear(input)
    /\ input \in LotTexts => result = Null

\* The matcher was called on "lot25" and returned no date.
C25_Witness ==
  /\ MatcherReturned
  /\ op = "tryMonthYear"
  /\ input = <<"l", "o", "t", "2", "5">>
  /\ result = Null

\* 28 or 29 for February according to leap years, 30 or 31 otherwise.
LastDayOfMonth(y, m) ==
  IF m = 2
    THEN IF (y % 4 = 0 /\ y % 100 # 0) \/ y % 400 = 0 THEN 29 ELSE 28
    ELSE IF m \in {4, 6, 9, 11} THEN 30 ELSE 31

\* The layouts that name a month and a year and no day.
MonthLayouts == {"MMM YYYY", "MM/YYYY", "MMYY"}

\* C26: every result of the MonthName-Year matcher and of the 4-digit
\* MMYY reading of the compact matcher is the last calendar day of the
\* month and year that were read, which are those written in the text, and
\* a MonthName-Year result has confidence medium.
C26_LastDayOfParsedMonth ==
  (Matched /\ (op = "tryMonthYear" \/ (op = "tryNumeric" /\ Len(DigitsOf(input)) = 4))) =>
    /\ result.date.m \in 1..12
    /\ result.date.d = LastDayOfMonth(result.date.y, result.date.m)
    /\ result.date.y = result.read.y
    /\ result.date.m = result.read.m
    /\ op = "tryMonthYear" => result.confidence = "medium"
    /\ \A l \in MonthLayouts \cap OwnLayouts(op) :
         \A t \in {u \in MatcherDates : u.m \in 1..12} :
           input = normalizeText(Render(l, t.y, t.m, t.d)) =>
             result.date = Ymd(t.y, t.m, LastDayOfMonth(t.y, t.m))

\* "02/2028" read as 29 February 2028.
C26_Witness ==
  /\ Matched
  /\ op = "tryMonthYear"
  /\ input = <<"0", "2", "/", "2", "0", "2", "8">>
  /\ result.date = Ymd(2028, 2, 29)

\* The entries of the flattened month registry, in its order, whose
\* normalized name is the token or starts it.
EntriesMatching(token) ==
  {i \in 1..Len(ALL_MONTHS) :
     LET name == normalizeText(ALL_MONTHS[i][1])
     IN  token = name \/ (Len(name) <= Len(token) /\ SubSeq(token, 1, Len(name)) = name)}

\* The layouts that name the month with a word.
NameLayouts == {"D MMM YYYY", "MMM D, YYYY", "MMM YYYY"}

\* C27: a month token resolves to the month number of the first entry of
\* the flattened registry whose normalized name equals the normalized
\* token or is a prefix of it, a number in 1..12; a token no entry matches
\* resolves to nothing and a text whose word is such a token gets no date
\* from the matchers that read a month name.
C27_MonthLookup ==
  /\ (pc = "returned" /\ op = "parseMonth") =>
        LET matching == EntriesMatching(normalizeText(input))
        IN  IF matching = {}
              THEN result = 0
              ELSE /\ result = ALL_MONTHS[Min(matching)][2]
                   /\ result \in 1..12
  /\ MatcherReturned =>
        \A l \in NameLayouts \cap OwnLayouts(op) :
          \A t \in {u \in MatcherDates : u.m \notin 1..12} :
            input = normalizeText(Render(l, t.y, t.m, t.d)) => result = Null

\* "septembers" resolved to 9: no entry equals it, several entries start
\* it, and the first of them gives the month.
C27_Witness ==
  /\ pc = "returned"
  /\ op = "parseMonth"
  /\ input = <<"s", "e", "p", "t", "e", "m", "b", "e", "r", "s">>
  /\ result = 9
  /\ Cardinality(EntriesMatching(input)) > 1

\* The characters 0..9 of a text, in their order, as a sequence of numbers.
RECURSIVE DigitValuesFrom(_, _)
DigitValuesFrom(text, i) ==
  IF i > Len(text) THEN <<>>
  ELSE LET rest == DigitValuesFrom(text, i + 1)
       IN  IF \E n \in 0..9 : text[i] = ToString(n)
             THEN <<CHOOSE n \in 0..9 : text[i] = ToString(n)>> \o rest
             ELSE rest

\* The number written by the digits i..j of ds.
RECURSIVE NumberAt(_, _, _)
NumberAt(ds, i, j) == IF j < i THEN 0 ELSE 10 * NumberAt(ds, i, j - 1) + ds[j]

\* t names a day of the calendar inside the validity window.
ValidInWindow(t) == IsCalendarDay(t) /\ isReasonableDate(t)

\* C28: the compact numeric matcher reads the digits of the whole
\* fragment, all other characters discarded, and returns a result only when
\* there are exactly 8, 6 or 4 of them; with 8 digits it returns the
\* DDMMYYYY reading when that is a valid in-window date, and the YYYYMMDD
\* reading only when the DDMMYYYY reading is rejected.
C28_CompactNumeric ==
  (MatcherReturned /\ op = "tryNumeric") =>
    LET ds == DigitValuesFrom(input, 1)
        ddmmyyyy == Ymd(NumberAt(ds, 5, 8), NumberAt(ds, 3, 4), NumberAt(ds, 1, 2))
        yyyymmdd == Ymd(NumberAt(ds, 1, 4), NumberAt(ds, 5, 6), NumberAt(ds, 7, 8))
        ddmmyy == Ymd(expandYear(NumberAt(ds, 5, 6)), NumberAt(ds, 3, 4), NumberAt(ds, 1, 2))
    IN  /\ Len(ds) \notin {8, 6, 4} => result = Null
        /\ Len(ds) = 8 =>
              IF ValidInWindow(ddmmyyyy)
                THEN result # Null /\ result.date = ddmmyyyy /\ result.format = "DDMMYYYY"
              ELSE IF ValidInWindow(yyyymmdd)
                THEN result # Null /\ result.date = yyyymmdd /\ result.format = "YYYYMMDD"
              ELSE result = Null
        /\ Len(ds) = 6 =>
              IF ValidInWindow(ddmmyy)
                THEN result # Null /\ result.date = ddmmyy /\ result.format = "DDMMYY"
                ELSE result = Null
        /\ (Len(ds) = 4 /\ result # Null) => result.format = "MMYY (fin de mois)"

\* "20270315": 20/27/0315 is no date, and the YYYYMMDD reading is
\* returned.
C28_Witness ==
  /\ Matched
  /\ op = "tryNumeric"
  /\ input = <<"2", "0", "2", "7", "0", "3", "1", "5">>
  /\ result.date = Ymd(2027, 3, 15)
  /\ result.format = "YYYYMMDD"

\* C29: for every date inside the validity window, parseExpiryDate on its
\* rendering YYYY-MM-DD, with no keyword, returns exactly that date with
\* format YYYY-MM-DD and confidence high; the Day-Month-Year matcher does
\* not take its two-digit-year pattern out of the ISO text.
C29_ISORoundTrip ==
  Parsed =>
    \A t \in {u \in TextDates : IsCalendarDay(u) /\ SurelyInWindow(u)} :
      input = Render("YYYY-MM-DD", t.y, t.m, t.d) =>
        /\ result.date = t
        /\ result.format = "YYYY-MM-DD"
        /\ result.confidence = "high"

\* The places of the registry keywords that occur in the normalized text.
KeywordsPresent(normalized) ==
  {j \in 1..Len(ALL_KEYWORDS) :
     \E i \in 1..(Len(normalized) - Len(NormKeywords[j]) + 1) :
       SubSeq(normalized, i, i + Len(NormKeywords[j]) - 1) = NormKeywords[j]}

\* One of the six matchers reads a date in what follows the first
\* occurrence of the j-th keyword.
RemainderParses(normalized, j) ==
  LET remainder ==
        AfterKeyword(normalized, IndexOf(normalized, NormKeywords[j]), NormKeywords[j])
  IN  \E k \in 1..Len(AnchoredOrder) : HasDate(Apply(AnchoredOrder[k], remainder))

\* C30: the keyword resolver yields nothing only when the six matchers
\* all fail after the first occurrence of every registry keyword that occurs
\* in the normalized text; a keyword with nothing readable after it is
\* passed over for the later ones, and detectedKeyword is the first keyword
\* in registry order whose remainder is read, the six matchers having been
\* tried after each keyword before it.
C30_KeywordLoopGoesOn ==
  (Parsed /\ ~IsBlank(input)) =>
    LET normalized == normalizeText(input)
        present == KeywordsPresent(normalized)
        parsing == {j \in present : RemainderParses(normalized, j)}
        anchored == AttemptsAt("keyword")
    IN  /\ result.detectedKeyword = <<>> <=> parsing = {}
        /\ parsing = {} => Len(anchored) = Len(AnchoredOrder) * Cardinality(present)
        /\ parsing # {} =>
              /\ result.detectedKeyword = ALL_KEYWORDS[Min(parsing)]
              /\ Len(anchored) >
                    Len(AnchoredOrder) * Cardinality({j \in present : j < Min(parsing)})
              /\ Len(anchored) <=
                    Len(AnchoredOrder) * (1 + Cardinality({j \in present : j < Min(parsing)}))

\* "EXP 03/2028 DLC": dlc comes first in the registry and has nothing
\* after it; the six matchers failed there and the date after exp was
\* returned.
C30_Witness ==
  /\ Parsed
  /\ input = <<"E", "X", "P", " ", "0", "3", "/", "2", "0", "2", "8", " ", "D", "L", "C">>
  /\ result.detectedKeyword = <<"e", "x", "p">>
  /\ result.date = Ymd(2028, 3, 31)
  /\ Len(AttemptsAt("keyword")) = 11

====
